---- MODULE Spec2Model ----
(***************************************************************************)
(* Rate-limit and connection-registry core of the appointment-booking     *)
(* demo: TokenBucket and RateLimiter (rate_limit.py) and ConnectionManager *)
(* (websocket/manager.py), with the WebSocket endpoints and their          *)
(* authentication (websocket/chat.py, websocket/auth.py) and the HTTP      *)
(* middleware (rate_limit.py) that use them.                               *)
(*                                                                         *)
(* Nine specifications share this module:                                  *)
(*   SpecBucket   one TokenBucket under consume / time_until_available     *)
(*   SpecLimiter  one RateLimiter with its HTTP and WebSocket pools        *)
(*   SpecQuota    the checks of one key counted against its quota          *)
(*   SpecManager  one ConnectionManager, each call run to completion       *)
(*   SpecHandler  the endpoint handlers of two connections, interleaved    *)
(*   SpecLoop     the message loops of two connections, with time passing  *)
(*   SpecSweep    one broadcast interleaved with connect and disconnect    *)
(*   SpecRequests the requests passing the limiter, interleaved            *)
(*   SpecService  the calls of the chat and voice services on one store    *)
(***************************************************************************)
EXTENDS Integers, Sequences, FiniteSets, TLC

(***************************************************************************)
(* Bounds of the model.                                                    *)
(***************************************************************************)
\* Significand width of the modelled binary floating point.  Python floats
\* are IEEE doubles (53 bits); the arithmetic below is the same
\* round-to-nearest-even arithmetic at a width TLC's integers can carry.
MantBits == 4
\* The wall clock advances in ticks of 2^-TickBits seconds.
TickBits == 1
\* Last tick of the wall clock in SpecBucket.
MaxClock == 17
\* Largest bucket capacity in SpecBucket.
MaxCapacity == 2
\* Seconds of wall-clock time covered by SpecLimiter.
LimiterMaxSeconds == 1
\* Messages held in all histories together in SpecManager.
MaxHistory == 2
\* Last tick of the wall clock in SpecRequests.
MaxRequestTicks == 2
\* Last tick of the wall clock in SpecQuota.
MaxQuotaTicks == 20

(***************************************************************************)
(* Python float arithmetic.  A float is 0 or m * 2^e with                  *)
(* 2^(MantBits-1) <= |m| < 2^MantBits; every operation returns the exact   *)
(* result rounded to nearest, ties to even.                                *)
(***************************************************************************)
Pow2(k) == 2^k

Abs(i) == IF i < 0 THEN 0 - i ELSE i

BitLen(n) ==
    CHOOSE k \in 0..(2 * MantBits + 6) :
        \/ k = 0 /\ n = 0
        \/ k > 0 /\ Pow2(k - 1) <= n /\ n < Pow2(k)

Zero == [m |-> 0, e |-> 0]

Neg(a) == [m |-> 0 - a.m, e |-> a.e]

\* n * 2^e, n >= 0, rounded to MantBits significant bits.
RoundNat(n, e) ==
    IF n = 0 THEN Zero
    ELSE LET bits == BitLen(n) IN
         IF bits <= MantBits
         THEN [m |-> n * Pow2(MantBits - bits), e |-> e - (MantBits - bits)]
         ELSE LET shift == bits - MantBits
                  q     == n \div Pow2(shift)
                  rem   == n % Pow2(shift)
                  half  == Pow2(shift - 1)
                  up    == rem > half \/ (rem = half /\ q % 2 = 1)
                  m     == IF up THEN q + 1 ELSE q
              IN IF m = Pow2(MantBits)
                 THEN [m |-> Pow2(MantBits - 1), e |-> e + shift + 1]
                 ELSE [m |-> m, e |-> e + shift]

\* n * 2^e rounded to MantBits significant bits.
Round(n, e) == IF n < 0 THEN Neg(RoundNat(0 - n, e)) ELSE RoundNat(n, e)

\* float(i) for an int i.
FromInt(i) == Round(i, 0)

One == FromInt(1)

\* a <= b for a, b > 0
PosLe(a, b) == a.e < b.e \/ (a.e = b.e /\ a.m <= b.m)

\* a <= b
FLe(a, b) ==
    IF a.m <= 0 /\ b.m >= 0 THEN TRUE
    ELSE IF a.m >= 0 /\ b.m <= 0 THEN FALSE
    ELSE IF a.m > 0 THEN PosLe(a, b)
    ELSE PosLe(Neg(b), Neg(a))

\* a >= b
FGe(a, b) == FLe(b, a)

\* a < b
FLt(a, b) == ~FLe(b, a)

\* min(a, b), Python's min: the first argument unless the second is smaller.
FMin(a, b) == IF FLt(b, a) THEN b ELSE a

\* a * b
FMul(a, b) == Round(a.m * b.m, a.e + b.e)

\* a / b, b # 0
FDiv(a, b) ==
    LET num == Abs(a.m) * Pow2(MantBits + 2)
        q   == num \div Abs(b.m)
        st  == IF num % Abs(b.m) = 0 THEN 0 ELSE 1
        r   == RoundNat(2 * q + st, a.e - b.e - MantBits - 3)
    IN IF (a.m < 0) = (b.m < 0) THEN r ELSE Neg(r)

\* a + b
FAdd(a, b) ==
    IF a.m = 0 THEN b
    ELSE IF b.m = 0 THEN a
    ELSE LET hi == IF a.e >= b.e THEN a ELSE b
             lo == IF a.e >= b.e THEN b ELSE a
             d  == hi.e - lo.e
         IN IF d > MantBits + 1 THEN hi
            ELSE Round(hi.m * Pow2(d) + lo.m, lo.e)

\* a - b
FSub(a, b) == FAdd(a, Neg(b))

VARIABLES
    clock,          \* the wall clock, in ticks
    ret,            \* the last call: its name, arguments, result and pre-state
    bucket,         \* SpecBucket: the TokenBucket under test
    refilled_at,    \* SpecBucket: the tick at which last_refill was taken
    burst,          \* SpecBucket: consume(1) calls made on the fresh bucket
                    \* with no time elapsed and no other consume, or -1
    config,         \* SpecLimiter: RateLimiter.config
    http_buckets,   \* SpecLimiter: RateLimiter._http_buckets
    ws_buckets,     \* SpecLimiter: RateLimiter._ws_buckets
    was_reset,      \* SpecLimiter: per pool, the keys reset and not checked
                    \* since, each with whether its bucket was exhausted
    connections,    \* SpecManager: ConnectionManager._connections, a dict
                    \* in insertion order: a sequence of [sid, ws]
    session_history, \* SpecManager: ConnectionManager._session_history
    used,           \* SpecManager: the sockets already handed to connect
    expected_token, \* SpecHandler: settings.websocket_auth_token
    socket,         \* SpecHandler: per WebSocket, the connection and the
                    \* position of its endpoint handler
    sweep,          \* SpecSweep: the frame of the running broadcast
    requests,       \* SpecRequests: the requests passing the limiter
    sessions,       \* SpecService: per service, its _sessions dict
    calls           \* SpecService: the calls of process_message and
                    \* _process_text, each with its position

bucketVars == <<bucket, refilled_at, burst>>

limiterVars == <<config, http_buckets, ws_buckets, was_reset>>

managerVars == <<connections, session_history, used>>

handlerVars == <<expected_token, socket>>

taskVars == <<handlerVars, sweep, requests>>

serviceVars == <<sessions, calls>>

vars == <<clock, ret, bucketVars, limiterVars, managerVars, taskVars,
         serviceVars>>

\* time.time(): the wall clock as a float.
time == Round(clock, 0 - TickBits)

(***************************************************************************)
(* TokenBucket                                                             *)
(***************************************************************************)
\* Sustained rates of the buckets checked, in requests per minute.
PerMinute == {20, 30, 60}

\* refill_rate = per_minute / 60.0
RefillRate(per_minute) == FDiv(FromInt(per_minute), FromInt(60))

\* TokenBucket(capacity, refill_rate): __post_init__ fills the bucket,
\* last_refill defaults to time.time().
TokenBucket(capacity, refill_rate) ==
    [capacity    |-> capacity,
     refill_rate |-> refill_rate,
     tokens      |-> FromInt(capacity),
     last_refill |-> time]

\* Mutant of Refilled: the refill is not capped at capacity.
RefilledUncapped(b, now) ==
    FAdd(b.tokens, FMul(FSub(now, b.last_refill), b.refill_rate))

\* The balance consume() computes before it decides:
\* min(capacity, tokens + elapsed * refill_rate).
Refilled(b, now) ==
    FMin(FromInt(b.capacity),
         FAdd(b.tokens, FMul(FSub(now, b.last_refill), b.refill_rate)))

\* Mutant of ConsumeOk: the balance must exceed the request.
ConsumeOkStrict(b, n, now) == FLt(FromInt(n), Refilled(b, now))

\* Whether consume(n) at time now returns True: tokens >= n after refill.
ConsumeOk(b, n, now) == FGe(Refilled(b, now), FromInt(n))

\* Mutant of ConsumeBucket: a refused consume takes what the bucket holds.
ConsumeBucketPartial(b, n, now) ==
    [b EXCEPT !.last_refill = now,
              !.tokens = IF ConsumeOk(b, n, now)
                         THEN FSub(Refilled(b, now), FromInt(n))
                         ELSE Zero]

\* Mutant of ConsumeBucket: last_refill is not advanced, so the time
\* already credited is credited again.
ConsumeBucketKeepsStamp(b, n, now) ==
    [b EXCEPT !.tokens = IF ConsumeOk(b, n, now)
                         THEN FSub(Refilled(b, now), FromInt(n))
                         ELSE Refilled(b, now)]

\* The bucket after consume(n) at time now.
ConsumeBucket(b, n, now) ==
    [b EXCEPT !.last_refill = now,
              !.tokens = IF ConsumeOk(b, n, now)
                         THEN FSub(Refilled(b, now), FromInt(n))
                         ELSE Refilled(b, now)]

\* TokenBucket.time_until_available(n)
TimeUntilAvailable(b, n) ==
    IF FGe(b.tokens, FromInt(n)) THEN Zero
    ELSE FDiv(FSub(FromInt(n), b.tokens), b.refill_rate)

\* A pool with no bucket.
EmptyPool == [k \in {} |-> Zero]

\* The limiter variables while another component is checked.
LimiterIdle ==
    /\ config = [enabled |-> TRUE]
    /\ http_buckets = EmptyPool
    /\ ws_buckets = EmptyPool
    /\ was_reset = [http |-> EmptyPool, ws |-> EmptyPool]

\* The manager variables while another component is checked.
ManagerIdle ==
    /\ connections = <<>>
    /\ session_history = EmptyPool
    /\ used = {}

\* The endpoint handlers, the broadcast and the middleware while another
\* component is checked.
HandlerIdle ==
    /\ expected_token = ""
    /\ socket = <<>>

SweepIdle == sweep = [pc |-> "idle"]

MiddlewareIdle == requests = <<>>

\* The services while another component is checked.
ServiceIdle ==
    /\ sessions = <<>>
    /\ calls = <<>>

InitBucket ==
    /\ clock = 0
    /\ \E c \in 1..MaxCapacity, pm \in PerMinute :
           bucket = TokenBucket(c, RefillRate(pm))
    /\ refilled_at = 0
    /\ ret = [op |-> "init"]
    /\ burst = 0
    /\ LimiterIdle
    /\ ManagerIdle
    /\ HandlerIdle
    /\ SweepIdle
    /\ MiddlewareIdle
    /\ ServiceIdle

\* Whether the last consume was a consume(1) that was refused.
LastRefused ==
    CASE ret.op = "consume" -> ret.n = 1 /\ ~ret.ok
      [] ret.op \in {"tick", "time_until_available"} -> ret.refused
      [] OTHER -> FALSE

\* Time passes.
Tick ==
    /\ clock < MaxClock
    /\ clock' = clock + 1
    /\ ret' = [op |-> "tick", refused |-> LastRefused]
    /\ burst' = -1
    /\ UNCHANGED <<bucket, refilled_at, limiterVars, managerVars, taskVars, serviceVars>>

\* bucket.consume(n)
consume(n) ==
    /\ bucket' = ConsumeBucket(bucket, n, time)
    /\ refilled_at' = clock
    /\ ret' = [op |-> "consume", n |-> n, ok |-> ConsumeOk(bucket, n, time),
               pre |-> bucket.tokens, since |-> bucket.last_refill,
               waited |-> clock - refilled_at,
               after_refusal |-> LastRefused,
               hint |-> TimeUntilAvailable(bucket, 1)]
    /\ burst' = IF n = 1 /\ burst >= 0 /\ burst <= bucket.capacity
                THEN burst + 1 ELSE -1
    /\ UNCHANGED <<clock, limiterVars, managerVars, taskVars, serviceVars>>

\* bucket.time_until_available(n)
time_until_available(n) ==
    /\ ret' = [op |-> "time_until_available", n |-> n,
               wait |-> TimeUntilAvailable(bucket, n),
               pre |-> bucket.tokens, since |-> bucket.last_refill,
               refused |-> LastRefused]
    /\ UNCHANGED <<clock, bucket, refilled_at, burst, limiterVars, managerVars, taskVars, serviceVars>>

NextBucket ==
    \/ Tick
    \/ \E n \in 0..MaxCapacity : consume(n)
    \/ \E n \in 1..MaxCapacity : time_until_available(n)

SpecBucket == InitBucket /\ [][NextBucket]_vars

(***************************************************************************)
(* Properties of TokenBucket, checked under SpecBucket.                    *)
(***************************************************************************)
Capacity == FromInt(bucket.capacity)

\* C1: after any sequence of consume(n) calls and time advances the balance
\* satisfies 0 <= tokens <= capacity.
C1_TokensWithinCapacity ==
    FLe(Zero, bucket.tokens) /\ FLe(bucket.tokens, Capacity)

\* A consume that found the bucket short of capacity and refilled it to the cap.
C1_Witness ==
    /\ ret.op = "consume"
    /\ ret.n = 0
    /\ FLt(ret.pre, Capacity)
    /\ bucket.tokens = Capacity

\* C2: on a fresh bucket of capacity C, with no time elapsing, the first C
\* consume(1) calls return true, the (C+1)-th returns false, and
\* time_until_available(1) is then 1 / refill_rate.
C2_BurstThenRefuse ==
    /\ (burst >= 1 /\ ret.op = "consume") =>
           ret.ok = (burst <= bucket.capacity)
    /\ burst = bucket.capacity + 1 =>
           /\ TimeUntilAvailable(bucket, 1) = FDiv(One, bucket.refill_rate)
           /\ (ret.op = "time_until_available" /\ ret.n = 1) =>
                  ret.wait = FDiv(One, bucket.refill_rate)

\* The (C+1)-th consume(1) was refused and the wait was then asked for.
C2_Witness ==
    /\ burst = bucket.capacity + 1
    /\ ret.op = "time_until_available"
    /\ ret.n = 1
    /\ bucket.capacity = MaxCapacity

\* Whether a wait of `ticks` is exactly capacity / refill_rate seconds:
\* ticks * 2^-TickBits * refill_rate = capacity, in exact arithmetic.
ExactWait(ticks) ==
    LET r == bucket.refill_rate IN
    IF r.e <= 0
    THEN ticks * r.m = bucket.capacity * Pow2(TickBits - r.e)
    ELSE ticks * r.m * Pow2(r.e) = bucket.capacity * Pow2(TickBits)

\* The last call was consume(capacity) on a bucket that held 0 tokens.
EmptyThenFull ==
    /\ ret.op = "consume"
    /\ ret.pre = Zero
    /\ ret.n = bucket.capacity

\* C3 as stated: after capacity / refill_rate seconds without a consume, a
\* bucket that held 0 tokens satisfies consume(capacity) and is left at 0.
C3_ExactWaitSucceeds ==
    (EmptyThenFull /\ ExactWait(ret.waited)) =>
        (ret.ok /\ bucket.tokens = Zero)

\* C3 as amended: consume(capacity) on a bucket that held 0 tokens succeeds,
\* leaving 0 tokens, exactly when the measured elapsed time times refill_rate,
\* in float arithmetic, reaches capacity; otherwise it is refused.
C3_MeasuredWaitSucceeds ==
    EmptyThenFull =>
        /\ ret.ok = FGe(FMul(FSub(bucket.last_refill, ret.since),
                             bucket.refill_rate), Capacity)
        /\ ret.ok => bucket.tokens = Zero

\* An empty bucket waited exactly capacity / refill_rate seconds and was
\* then satisfied in full.
C3_Witness ==
    /\ EmptyThenFull
    /\ ExactWait(ret.waited)
    /\ ret.ok
    /\ bucket.tokens = Zero

\* Whether `ticks` of the wall clock are at least the float x >= 0 seconds.
AtLeast(ticks, x) ==
    IF x.e + TickBits >= 0
    THEN ticks >= x.m * Pow2(x.e + TickBits)
    ELSE ticks * Pow2(0 - x.e - TickBits) >= x.m

\* The last call was a consume(1) that followed a refused consume(1) with
\* no consume in between: a check on a key after a refused check.
RetryAfterRefusal ==
    /\ ret.op = "consume"
    /\ ret.n = 1
    /\ ret.after_refusal

RefilledBefore ==
    Refilled([bucket EXCEPT !.tokens = ret.pre, !.last_refill = ret.since],
             bucket.last_refill)

\* x = y - n in exact arithmetic, n an int.
ExactlyLess(x, y, n) ==
    LET s == IF x.e < y.e THEN (IF x.e < 0 THEN x.e ELSE 0)
             ELSE (IF y.e < 0 THEN y.e ELSE 0)
    IN x.m * Pow2(x.e - s) + n * Pow2(0 - s) = y.m * Pow2(y.e - s)

\* C26: consume(n) is all-or-nothing: when it returns True the balance is
\* the refilled balance less exactly n, when it returns False the balance
\* is the refilled balance; time_until_available leaves the bucket as it
\* found it.
C26_ConsumeAllOrNothing ==
    /\ ret.op = "consume" =>
           IF ret.ok THEN ExactlyLess(bucket.tokens, RefilledBefore, ret.n)
           ELSE bucket.tokens = RefilledBefore
    /\ ret.op = "time_until_available" =>
           bucket.tokens = ret.pre /\ bucket.last_refill = ret.since

\* A consume(2) was refused after a refill: the balance grew to a value
\* between 1 and 2 and was left there.
C26_Witness ==
    /\ ret.op = "consume" /\ ret.n = 2 /\ ~ret.ok
    /\ FLt(ret.pre, bucket.tokens)
    /\ FLt(One, bucket.tokens)

(***************************************************************************)
(* RateLimiter                                                             *)
(***************************************************************************)
\* Client keys (IP addresses, session ids).
Keys == {"a", "b"}

\* The configurations checked: RateLimitConfig with these burst limits and
\* sustained rates.
Configs ==
    [http_requests_per_minute : {60},
     http_burst_limit         : {2},
     ws_messages_per_minute   : {30},
     ws_burst_limit           : {1},
     enabled                  : BOOLEAN]

\* The bucket idle while the limiter is checked.
BucketIdle ==
    /\ bucket = [capacity |-> 1, refill_rate |-> One, tokens |-> One,
                 last_refill |-> Zero]
    /\ refilled_at = 0
    /\ burst = -1

\* Mutant of GetOrCreate: every lookup makes a new bucket, as when two
\* callers both miss the key and each installs its own.
GetOrCreateFresh(buckets, key, capacity, per_minute) ==
    TokenBucket(capacity, RefillRate(per_minute))

\* defaultdict lookup buckets[key]: the key's bucket, made by the factory
\* (a full bucket stamped with the current time) when the key is missing.
GetOrCreate(buckets, key, capacity, per_minute) ==
    IF key \in DOMAIN buckets THEN buckets[key]
    ELSE TokenBucket(capacity, RefillRate(per_minute))

\* The pool with the key's bucket replaced.
Put(buckets, key, b) ==
    [k \in DOMAIN buckets \cup {key} |-> IF k = key THEN b ELSE buckets[k]]

\* Mutant of Check: one bucket object is shared by every key of the pool.
CheckShared(buckets, key, capacity, per_minute) ==
    LET b  == GetOrCreate(buckets, key, capacity, per_minute)
        b2 == ConsumeBucket(b, 1, time)
        ok == ConsumeOk(b, 1, time)
    IN [buckets     |-> [k \in DOMAIN buckets \cup {key} |-> b2],
        allowed     |-> ok,
        retry_after |-> IF ok THEN Zero ELSE TimeUntilAvailable(b2, 1)]

\* The enabled branch of check_http / check_ws on one pool:
\* bucket = buckets[key]; allowed = bucket.consume();
\* retry_after = 0.0 if allowed else bucket.time_until_available().
Check(buckets, key, capacity, per_minute) ==
    LET b  == GetOrCreate(buckets, key, capacity, per_minute)
        b2 == ConsumeBucket(b, 1, time)
        ok == ConsumeOk(b, 1, time)
    IN [buckets     |-> Put(buckets, key, b2),
        allowed     |-> ok,
        retry_after |-> IF ok THEN Zero ELSE TimeUntilAvailable(b2, 1)]

\* Mutant of CheckHttp: the enabled flag is not consulted.
CheckHttpAlwaysOn(cfg, buckets, key) ==
    Check(buckets, key, cfg.http_burst_limit, cfg.http_requests_per_minute)

\* RateLimiter.check_http(key) on the HTTP pool `buckets`.
CheckHttp(cfg, buckets, key) ==
    IF ~cfg.enabled
    THEN [buckets |-> buckets, allowed |-> TRUE, retry_after |-> Zero]
    ELSE Check(buckets, key, cfg.http_burst_limit, cfg.http_requests_per_minute)

\* Mutant of CheckWs: the key's bucket is looked up in the HTTP pool.
CheckWsInHttpPool(cfg, buckets, key) ==
    IF ~cfg.enabled
    THEN [buckets |-> buckets, allowed |-> TRUE, retry_after |-> Zero]
    ELSE Check(http_buckets, key, cfg.ws_burst_limit, cfg.ws_messages_per_minute)

\* RateLimiter.check_ws(key) on the WebSocket pool `buckets`.
CheckWs(cfg, buckets, key) ==
    IF ~cfg.enabled
    THEN [buckets |-> buckets, allowed |-> TRUE, retry_after |-> Zero]
    ELSE Check(buckets, key, cfg.ws_burst_limit, cfg.ws_messages_per_minute)

\* Mutant of Pop: the bucket is refilled in place instead of removed, and
\* keeps its last_refill stamp.
PopKeepsBucket(buckets, key) == buckets

\* dict.pop(key, None)
Pop(buckets, key) == [k \in DOMAIN buckets \ {key} |-> buckets[k]]

\* The key has a bucket that cannot admit a request as it stands.
Exhausted(buckets, key) ==
    key \in DOMAIN buckets /\ FLt(buckets[key].tokens, One)

InitLimiter ==
    /\ clock = 0
    /\ ret = [op |-> "init"]
    /\ config \in Configs
    /\ http_buckets = EmptyPool
    /\ ws_buckets = EmptyPool
    /\ was_reset = [http |-> EmptyPool, ws |-> EmptyPool]
    /\ BucketIdle
    /\ ManagerIdle
    /\ HandlerIdle
    /\ SweepIdle
    /\ MiddlewareIdle
    /\ ServiceIdle

\* Time passes, a second at a time.
LimiterTick ==
    /\ clock + Pow2(TickBits) <= LimiterMaxSeconds * Pow2(TickBits)
    /\ clock' = clock + Pow2(TickBits)
    /\ ret' = [op |-> "tick"]
    /\ UNCHANGED <<bucketVars, serviceVars, limiterVars, managerVars, taskVars>>

\* limiter.check_http(key)
check_http(key) ==
    LET r == CheckHttp(config, http_buckets, key) IN
    /\ http_buckets' = r.buckets
    /\ was_reset' = [was_reset EXCEPT !.http = Pop(@, key)]
    /\ ret' = [op |-> "check_http", key |-> key, allowed |-> r.allowed,
               retry_after |-> r.retry_after,
               after_reset |-> key \in DOMAIN was_reset.http,
               was_exhausted |-> key \in DOMAIN was_reset.http
                                 /\ was_reset.http[key]]
    /\ UNCHANGED <<clock, bucketVars, serviceVars, managerVars, config, ws_buckets, taskVars>>

\* limiter.check_ws(key)
check_ws(key) ==
    LET r == CheckWs(config, ws_buckets, key) IN
    /\ ws_buckets' = r.buckets
    /\ was_reset' = [was_reset EXCEPT !.ws = Pop(@, key)]
    /\ ret' = [op |-> "check_ws", key |-> key, allowed |-> r.allowed,
               retry_after |-> r.retry_after,
               after_reset |-> key \in DOMAIN was_reset.ws,
               was_exhausted |-> key \in DOMAIN was_reset.ws
                                 /\ was_reset.ws[key]]
    /\ UNCHANGED <<clock, bucketVars, serviceVars, managerVars, config, http_buckets, taskVars>>

\* limiter.reset(key)
reset(key) ==
    /\ http_buckets' = Pop(http_buckets, key)
    /\ ws_buckets' = Pop(ws_buckets, key)
    /\ was_reset' = [http |-> Put(was_reset.http, key,
                                  Exhausted(http_buckets, key)),
                     ws   |-> Put(was_reset.ws, key,
                                  Exhausted(ws_buckets, key))]
    /\ ret' = [op |-> "reset", key |-> key]
    /\ UNCHANGED <<clock, bucketVars, serviceVars, managerVars, config, taskVars>>

\* limiter.reset(): both pools are cleared.
reset_all ==
    /\ http_buckets' = EmptyPool
    /\ ws_buckets' = EmptyPool
    /\ was_reset' = [http |-> [k \in Keys |-> Exhausted(http_buckets, k)],
                     ws   |-> [k \in Keys |-> Exhausted(ws_buckets, k)]]
    /\ ret' = [op |-> "reset_all"]
    /\ UNCHANGED <<clock, bucketVars, serviceVars, managerVars, config, taskVars>>

\* limiter.config.enabled = flag (RateLimitConfig is a mutable dataclass).
set_enabled(flag) ==
    /\ config.enabled # flag
    /\ config' = [config EXCEPT !.enabled = flag]
    /\ ret' = [op |-> "set_enabled", flag |-> flag]
    /\ UNCHANGED <<clock, bucketVars, serviceVars, managerVars, http_buckets, ws_buckets, was_reset, taskVars>>

NextLimiter ==
    \/ LimiterTick
    \/ \E key \in Keys : check_http(key)
    \/ \E key \in Keys : check_ws(key)
    \/ \E key \in Keys : reset(key)
    \/ reset_all
    \/ \E flag \in BOOLEAN : set_enabled(flag)

SpecLimiter == InitLimiter /\ [][NextLimiter]_vars

(***************************************************************************)
(* Properties of RateLimiter, checked under SpecLimiter.                   *)
(***************************************************************************)
\* Key k has the same bucket, or none, in pools p and q.
SameBucket(p, q, k) ==
    /\ (k \in DOMAIN p) = (k \in DOMAIN q)
    /\ k \in DOMAIN p => p[k] = q[k]

\* C27: the two pools are independent: a check_http leaves the WebSocket
\* pool as it was and a check_ws leaves the HTTP pool as it was, so that
\* the first check of a key in one pool is admitted whatever the other pool
\* holds for the same key.
C27_PoolsIndependent ==
    [][/\ ret'.op = "check_http" =>
            /\ ws_buckets' = ws_buckets
            /\ (config.enabled /\ ret'.key \notin DOMAIN http_buckets)
                   => ret'.allowed
       /\ ret'.op = "check_ws" =>
            /\ http_buckets' = http_buckets
            /\ (config.enabled /\ ret'.key \notin DOMAIN ws_buckets)
                   => ret'.allowed]_vars

\* A key's first check_ws was admitted while the HTTP bucket of the same
\* key was exhausted.
C27_Witness ==
    /\ ret.op = "check_ws" /\ ret.allowed /\ config.enabled
    /\ ~ret.after_reset
    /\ Exhausted(http_buckets, ret.key)

\* C4: a check on key a leaves the bucket of every other key b of the pool
\* as it was, and b's next check is answered as it would have been.
C4_OtherKeysUntouched ==
    [][\A a \in Keys, b \in Keys :
          a # b =>
          /\ (ret'.op = "check_http" /\ ret'.key = a) =>
                 /\ SameBucket(http_buckets, http_buckets', b)
                 /\ CheckHttp(config', http_buckets', b).allowed
                        = CheckHttp(config, http_buckets, b).allowed
                 /\ CheckHttp(config', http_buckets', b).retry_after
                        = CheckHttp(config, http_buckets, b).retry_after
          /\ (ret'.op = "check_ws" /\ ret'.key = a) =>
                 /\ SameBucket(ws_buckets, ws_buckets', b)
                 /\ CheckWs(config', ws_buckets', b).allowed
                        = CheckWs(config, ws_buckets, b).allowed
                 /\ CheckWs(config', ws_buckets', b).retry_after
                        = CheckWs(config, ws_buckets, b).retry_after
      ]_vars

\* Key a's burst is exhausted and refused while key b holds a bucket that
\* still admits requests.
C4_Witness ==
    /\ ret.op = "check_http"
    /\ ret.key = "a"
    /\ ~ret.allowed
    /\ "b" \in DOMAIN http_buckets
    /\ FGe(http_buckets["b"].tokens, One)

\* C5: with config.enabled false every check_http and check_ws returns
\* (True, 0.0).
C5_DisabledAlwaysAllows ==
    (ret.op \in {"check_http", "check_ws"} /\ ~config.enabled) =>
        (ret.allowed /\ ret.retry_after = Zero)

\* A check made while disabled on a key whose bucket is exhausted.
C5_Witness ==
    /\ ret.op = "check_http"
    /\ ~config.enabled
    /\ Exhausted(http_buckets, ret.key)

\* The burst limit of the pool the last check was made on, and the pool.
LastBurstLimit ==
    IF ret.op = "check_http" THEN config.http_burst_limit
    ELSE config.ws_burst_limit

LastPool == IF ret.op = "check_http" THEN http_buckets ELSE ws_buckets

\* C6: the first check on a key after reset(key) or reset() is allowed with
\* retry 0 and leaves the key a full burst less this one request.
C6_ResetRestoresBurst ==
    (ret.op \in {"check_http", "check_ws"} /\ ret.after_reset) =>
        /\ ret.allowed
        /\ ret.retry_after = Zero
        /\ config.enabled =>
               /\ ret.key \in DOMAIN LastPool
               /\ LastPool[ret.key].tokens = FromInt(LastBurstLimit - 1)

\* The first check after a reset, on a key that was exhausted when reset.
C6_Witness ==
    /\ ret.op \in {"check_http", "check_ws"}
    /\ ret.after_reset
    /\ ret.was_exhausted
    /\ config.enabled

(***************************************************************************)
(* The checks of one key over time, counted: RateLimiter.check_http on a   *)
(* limiter whose burst limit and sustained rate range over the bounds.     *)
(***************************************************************************)
\* The configurations of SpecQuota.
QuotaConfigs ==
    [http_requests_per_minute : PerMinute,
     http_burst_limit         : 1..MaxCapacity,
     ws_messages_per_minute   : {30},
     ws_burst_limit           : {1},
     enabled                  : {TRUE}]

\* The key checked.
QuotaKey == "a"

\* The checks admitted so far.
AdmittedSoFar == IF ret.op = "init" THEN 0 ELSE ret.admitted

\* The tick at which the key's bucket was made, -1 before its first check.
CreatedAt == IF ret.op = "init" THEN -1 ELSE ret.created

InitQuota ==
    /\ clock = 0
    /\ ret = [op |-> "init"]
    /\ config \in QuotaConfigs
    /\ http_buckets = EmptyPool
    /\ ws_buckets = EmptyPool
    /\ was_reset = [http |-> EmptyPool, ws |-> EmptyPool]
    /\ BucketIdle
    /\ ManagerIdle
    /\ HandlerIdle
    /\ SweepIdle
    /\ MiddlewareIdle
    /\ ServiceIdle

\* Time passes.
QuotaTick ==
    /\ clock < MaxQuotaTicks
    /\ clock' = clock + 1
    /\ ret' = [op |-> "tick", admitted |-> AdmittedSoFar,
               created |-> CreatedAt]
    /\ UNCHANGED <<bucketVars, serviceVars, limiterVars, managerVars, taskVars>>

\* limiter.check_http(key), counted.
quota_check_http ==
    /\ \E r \in {CheckHttp(config, http_buckets, QuotaKey)} :
       /\ http_buckets' = r.buckets
       /\ ret' = [op |-> "check_http", allowed |-> r.allowed,
                  admitted |-> AdmittedSoFar + (IF r.allowed THEN 1 ELSE 0),
                  created |-> IF QuotaKey \in DOMAIN http_buckets
                              THEN CreatedAt ELSE clock]
    /\ UNCHANGED <<clock, bucketVars, serviceVars, managerVars, config, ws_buckets,
                   was_reset, taskVars>>

NextQuota ==
    \/ QuotaTick
    \/ quota_check_http

SpecQuota == InitQuota /\ [][NextQuota]_vars

(***************************************************************************)
(* Properties of the quota, checked under SpecQuota.                       *)
(***************************************************************************)
\* Ticks since the key's bucket was made.
ElapsedTicks == clock - CreatedAt

\* admitted <= burst + rate * elapsed in exact arithmetic, the rate a float
\* and the elapsed time in ticks.
WithinQuota(admitted, limit, rate, ticks) ==
    IF rate.e >= 0
    THEN admitted * Pow2(TickBits)
             <= limit * Pow2(TickBits) + rate.m * Pow2(rate.e) * ticks
    ELSE admitted * Pow2(TickBits - rate.e)
             <= limit * Pow2(TickBits - rate.e) + rate.m * ticks

\* The float x is the number num / den.
IsExactly(x, num, den) ==
    IF x.e >= 0 THEN x.m * Pow2(x.e) * den = num
    ELSE x.m * den = num * Pow2(0 - x.e)

\* No rounding so far: the refill rate is per_minute / 60 exactly and every
\* reading of the clock up to now is the time it was taken at.
NothingRounded ==
    /\ IsExactly(RefillRate(config.http_requests_per_minute),
                 config.http_requests_per_minute, 60)
    /\ \A t \in 0..clock : IsExactly(Round(t, 0 - TickBits), t, Pow2(TickBits))

\* C28 as stated: from a fresh bucket on, the checks admitted on a key
\* never exceed the burst limit plus the refill rate times the time elapsed.
C28_AdmittedWithinQuota ==
    CreatedAt >= 0 =>
        WithinQuota(AdmittedSoFar, config.http_burst_limit,
                    RefillRate(config.http_requests_per_minute), ElapsedTicks)

\* C28, amended: the bound holds as long as nothing is rounded, the refill
\* rate and the clock readings being exact binary fractions.
C28_AdmittedWithinQuotaExact ==
    (CreatedAt >= 0 /\ NothingRounded) =>
        WithinQuota(AdmittedSoFar, config.http_burst_limit,
                    RefillRate(config.http_requests_per_minute), ElapsedTicks)

\* The burst was spent and one more check was admitted as soon as the
\* refill paid for it, nothing being rounded: a tick earlier the count
\* would have been over the bound.
C28_Witness ==
    /\ CreatedAt >= 0 /\ NothingRounded
    /\ ret.op = "check_http" /\ ret.allowed
    /\ ElapsedTicks > 0
    /\ AdmittedSoFar = config.http_burst_limit + 1
    /\ ~WithinQuota(AdmittedSoFar, config.http_burst_limit,
                    RefillRate(config.http_requests_per_minute),
                    ElapsedTicks - 1)

(***************************************************************************)
(* ConnectionManager                                                       *)
(***************************************************************************)
\* The WebSocket objects handed to connect, one per client connection.
Handles == {"w1", "w2", "w3"}

\* Session ids a client may ask for, and the ids uuid4 may generate.
ClientIds == {"s1", "s2"}

Uuids == {"u1"}

SessionIds == ClientIds \cup Uuids

\* session_id = None
None == "None"

\* The requested ids that `session_id or str(uuid.uuid4())` replaces.
Falsy == {None, ""}

\* Messages stored in a history.
Messages == {"m1", "m2"}

\* The session ids with a registered handle.
ConnIds(conns) == {conns[i].sid : i \in DOMAIN conns}

\* The position of the session id in the dict.
IndexOf(conns, sid) == CHOOSE i \in DOMAIN conns : conns[i].sid = sid

\* self._connections.get(session_id)
Lookup(conns, sid) ==
    IF sid \in ConnIds(conns) THEN conns[IndexOf(conns, sid)].ws ELSE None

\* Mutant of SetConn: every connect adds an entry, also for a key the dict
\* already holds.
SetConnAppends(conns, sid, ws) == Append(conns, [sid |-> sid, ws |-> ws])

\* self._connections[session_id] = websocket: an existing key keeps its
\* place in the dict, a new key goes last.
SetConn(conns, sid, ws) ==
    IF sid \in ConnIds(conns)
    THEN [conns EXCEPT ![IndexOf(conns, sid)] = [sid |-> sid, ws |-> ws]]
    ELSE Append(conns, [sid |-> sid, ws |-> ws])

\* Mutant of Disconnect: with no entry for the key the newest entry is
\* removed instead (popitem).
DisconnectOrNewest(conns, sid) ==
    IF sid \in ConnIds(conns) \/ conns = <<>>
    THEN SelectSeq(conns, LAMBDA c : c.sid # sid)
    ELSE SubSeq(conns, 1, Len(conns) - 1)

\* self._connections.pop(session_id, None)
Disconnect(conns, sid) == SelectSeq(conns, LAMBDA c : c.sid # sid)

\* Mutant of EnsureHistory: connect starts the session's history afresh.
EnsureHistoryResets(hist, sid) ==
    [k \in DOMAIN hist \cup {sid} |-> IF k = sid THEN <<>> ELSE hist[k]]

\* if session_id not in self._session_history: ...[session_id] = []
EnsureHistory(hist, sid) ==
    [k \in DOMAIN hist \cup {sid} |-> IF k \in DOMAIN hist THEN hist[k] ELSE <<>>]

\* self._session_history.get(session_id, [])
GetHistory(hist, sid) == IF sid \in DOMAIN hist THEN hist[sid] ELSE <<>>

\* Mutant of AddToHistory: the entry is made anew when the message is
\* added, as when two appends both find the entry absent and each installs
\* its own list.
AddToHistoryInstalls(hist, sid, message) ==
    [k \in DOMAIN hist \cup {sid} |->
        IF k = sid THEN <<message>> ELSE hist[k]]

\* add_to_history: the entry is made if absent, the message goes last.
AddToHistory(hist, sid, message) ==
    [k \in DOMAIN hist \cup {sid} |->
        IF k = sid THEN Append(GetHistory(hist, sid), message) ELSE hist[k]]

\* clear_history: self._session_history[session_id] = []
ClearHistory(hist, sid) ==
    [k \in DOMAIN hist \cup {sid} |-> IF k = sid THEN <<>> ELSE hist[k]]

\* Mutant of SendMessage: the send is not guarded by try / except.
SendMessageUnguarded(conns, sid, fails) ==
    LET ws == Lookup(conns, sid) IN
    IF ws = None
    THEN [connections |-> conns, result |-> FALSE, attempted |-> <<>>,
          raised |-> FALSE]
    ELSE [connections |-> conns, result |-> ~fails, attempted |-> <<ws>>,
          raised |-> fails]

\* Mutant of SendMessage: a missing handle is registered on the way.
SendMessageRegisters(conns, sid, fails) ==
    LET ws == Lookup(conns, sid) IN
    IF ws = None
    THEN [connections |-> SetConn(conns, sid, None), result |-> FALSE,
          attempted |-> <<>>, raised |-> FALSE]
    ELSE IF fails
    THEN [connections |-> Disconnect(conns, sid), result |-> FALSE,
          attempted |-> <<ws>>, raised |-> FALSE]
    ELSE [connections |-> conns, result |-> TRUE, attempted |-> <<ws>>,
          raised |-> FALSE]

\* send_message(session_id, message); `fails` says whether send_json raises.
SendMessage(conns, sid, fails) ==
    LET ws == Lookup(conns, sid) IN
    IF ws = None
    THEN [connections |-> conns, result |-> FALSE, attempted |-> <<>>,
          raised |-> FALSE]
    ELSE IF fails
    THEN [connections |-> Disconnect(conns, sid), result |-> FALSE,
          attempted |-> <<ws>>, raised |-> FALSE]
    ELSE [connections |-> conns, result |-> TRUE, attempted |-> <<ws>>,
          raised |-> FALSE]

\* Mutant of Sweep: the first failing send ends the sweep.
RECURSIVE SweepAborts(_, _, _)
SweepAborts(conns, i, failing) ==
    IF i > Len(conns) THEN [sent |-> <<>>, disconnected |-> <<>>]
    ELSE IF conns[i].sid \in failing
    THEN [sent |-> <<>>, disconnected |-> <<conns[i].sid>>]
    ELSE LET rest == SweepAborts(conns, i + 1, failing) IN
         [sent         |-> <<conns[i].ws>> \o rest.sent,
          disconnected |-> rest.disconnected]

\* The loop of broadcast from position i on: the handles that were sent the
\* message, and the session ids collected because their send raised.
RECURSIVE Sweep(_, _, _)
Sweep(conns, i, failing) ==
    IF i > Len(conns) THEN [sent |-> <<>>, disconnected |-> <<>>]
    ELSE LET rest == Sweep(conns, i + 1, failing) IN
         IF conns[i].sid \in failing
         THEN [sent         |-> rest.sent,
               disconnected |-> <<conns[i].sid>> \o rest.disconnected]
         ELSE [sent         |-> <<conns[i].ws>> \o rest.sent,
               disconnected |-> rest.disconnected]

\* for session_id in disconnected: self.disconnect(session_id)
RECURSIVE Prune(_, _)
Prune(conns, disconnected) ==
    IF disconnected = <<>> THEN conns
    ELSE Prune(Disconnect(conns, Head(disconnected)), Tail(disconnected))

\* broadcast(message); `failing` are the sessions whose send_json raises.
Broadcast(conns, failing) ==
    LET sw == Sweep(conns, 1, failing) IN
    [connections |-> Prune(conns, sw.disconnected), sent |-> sw.sent]

\* Mutant of CloseEach: a close that raises ends the loop and is propagated.
RECURSIVE CloseEachAborts(_, _, _)
CloseEachAborts(conns, keys, failing) ==
    IF keys = <<>>
    THEN [connections |-> conns, closed |-> <<>>, raised |-> FALSE]
    ELSE LET ws == Lookup(conns, Head(keys)) IN
         IF ws \in failing
         THEN [connections |-> Disconnect(conns, Head(keys)),
               closed |-> <<ws>>, raised |-> TRUE]
         ELSE LET rest == CloseEachAborts(Disconnect(conns, Head(keys)),
                                          Tail(keys), failing)
              IN [connections |-> rest.connections,
                  closed |-> IF ws = None THEN rest.closed
                             ELSE <<ws>> \o rest.closed,
                  raised |-> rest.raised]

\* The loop of disconnect_all over the keys listed when it started: each
\* key is popped and its handle, if any, closed; `failing` are the handles
\* whose close raises, which the except clause swallows.
RECURSIVE CloseEach(_, _, _)
CloseEach(conns, keys, failing) ==
    IF keys = <<>>
    THEN [connections |-> conns, closed |-> <<>>, raised |-> FALSE]
    ELSE LET ws   == Lookup(conns, Head(keys))
             rest == CloseEach(Disconnect(conns, Head(keys)), Tail(keys),
                               failing)
         IN [connections |-> rest.connections,
             closed |-> IF ws = None THEN rest.closed
                        ELSE <<ws>> \o rest.closed,
             raised |-> rest.raised]

\* list(self._connections.keys())
KeyList(conns) == [i \in DOMAIN conns |-> conns[i].sid]

\* disconnect_all(), run to completion.
DisconnectAll(conns, failing) == CloseEach(conns, KeyList(conns), failing)

\* The number of messages held in all histories.
RECURSIVE StoredIn(_, _)
StoredIn(hist, ids) ==
    IF ids = {} THEN 0
    ELSE LET k == CHOOSE x \in ids : TRUE
         IN Len(hist[k]) + StoredIn(hist, ids \ {k})

Stored(hist) == StoredIn(hist, DOMAIN hist)

InitManager ==
    /\ clock = 0
    /\ ret = [op |-> "init"]
    /\ connections = <<>>
    /\ session_history = EmptyPool
    /\ used = {}
    /\ BucketIdle
    /\ LimiterIdle
    /\ HandlerIdle
    /\ SweepIdle
    /\ MiddlewareIdle
    /\ ServiceIdle

\* await manager.connect(websocket, session_id): `requested` is the id asked
\* for, `sid` the id taken (a new uuid when None or "" is asked for), and
\* `accept_ok` whether websocket.accept() returns.
connect(ws, requested, sid, accept_ok) ==
    /\ ws \notin used
    /\ IF requested \in Falsy
       THEN sid \in Uuids \ (DOMAIN session_history \cup ConnIds(connections))
       ELSE sid = requested
    /\ used' = used \cup {ws}
    /\ connections' = IF accept_ok THEN SetConn(connections, sid, ws)
                      ELSE connections
    /\ session_history' = IF accept_ok THEN EnsureHistory(session_history, sid)
                          ELSE session_history
    /\ ret' = [op |-> "connect", sid |-> sid, ws |-> ws,
               raised |-> ~accept_ok,
               had |-> Len(GetHistory(session_history, sid)),
               live |-> sid \in ConnIds(connections),
               after_disconnect |-> /\ ret.op = "disconnect"
                                    /\ ret.sid = sid
                                    /\ ret.registered]
    /\ UNCHANGED <<clock, bucketVars, serviceVars, limiterVars, taskVars>>

\* manager.disconnect(session_id)
disconnect(sid) ==
    /\ connections' = Disconnect(connections, sid)
    /\ ret' = [op |-> "disconnect", sid |-> sid,
               registered |-> sid \in ConnIds(connections),
               again |-> ret.op = "disconnect" /\ ret.sid = sid]
    /\ UNCHANGED <<clock, bucketVars, serviceVars, limiterVars, session_history, used, taskVars>>

\* await manager.disconnect_all(); `failing` are the handles whose close
\* raises.
disconnect_all(failing) ==
    LET r == DisconnectAll(connections, failing) IN
    /\ connections' = r.connections
    /\ ret' = [op |-> "disconnect_all", before |-> connections,
               failing |-> failing, closed |-> r.closed, raised |-> r.raised]
    /\ UNCHANGED <<clock, bucketVars, serviceVars, limiterVars, session_history, used, taskVars>>

\* manager.get_history(session_id)
get_history(sid) ==
    /\ ret' = [op |-> "get_history", sid |-> sid,
               history |-> GetHistory(session_history, sid)]
    /\ UNCHANGED <<clock, bucketVars, serviceVars, limiterVars, managerVars, taskVars>>

\* manager.add_to_history(session_id, message)
add_to_history(sid, message) ==
    /\ Stored(session_history) < MaxHistory
    /\ session_history' = AddToHistory(session_history, sid, message)
    /\ ret' = [op |-> "add_to_history", sid |-> sid, message |-> message]
    /\ UNCHANGED <<clock, bucketVars, serviceVars, limiterVars, connections, used, taskVars>>

\* manager.clear_history(session_id)
clear_history(sid) ==
    /\ session_history' = ClearHistory(session_history, sid)
    /\ ret' = [op |-> "clear_history", sid |-> sid]
    /\ UNCHANGED <<clock, bucketVars, serviceVars, limiterVars, connections, used, taskVars>>

\* await manager.send_message(session_id, message)
send_message(sid, fails) ==
    LET r == SendMessage(connections, sid, fails) IN
    /\ fails => sid \in ConnIds(connections)
    /\ connections' = r.connections
    /\ ret' = [op |-> "send_message", sid |-> sid,
               registered |-> sid \in ConnIds(connections),
               handle |-> Lookup(connections, sid),
               failed |-> fails, result |-> r.result,
               attempted |-> r.attempted, raised |-> r.raised]
    /\ UNCHANGED <<clock, bucketVars, serviceVars, limiterVars, session_history, used, taskVars>>

\* await manager.broadcast(message), run to completion
broadcast(failing) ==
    LET r == Broadcast(connections, failing) IN
    /\ connections' = r.connections
    /\ ret' = [op |-> "broadcast", before |-> connections,
               failing |-> failing, sent |-> r.sent]
    /\ UNCHANGED <<clock, bucketVars, serviceVars, limiterVars, session_history, used, taskVars>>

NextManager ==
    \/ \E ws \in Handles, requested \in SessionIds \cup Falsy,
          sid \in SessionIds, accept_ok \in BOOLEAN :
              connect(ws, requested, sid, accept_ok)
    \/ \E sid \in SessionIds : disconnect(sid)
    \/ \E failing \in SUBSET {connections[i].ws : i \in DOMAIN connections} :
           disconnect_all(failing)
    \/ \E sid \in SessionIds : get_history(sid)
    \/ \E sid \in SessionIds, message \in Messages :
           add_to_history(sid, message)
    \/ \E sid \in SessionIds : clear_history(sid)
    \/ \E sid \in SessionIds, fails \in BOOLEAN : send_message(sid, fails)
    \/ \E failing \in SUBSET ConnIds(connections) : broadcast(failing)

SpecManager == InitManager /\ [][NextManager]_vars

\* ConnectionManager.active_connections
active_connections == Len(connections)

(***************************************************************************)
(* Properties of ConnectionManager, checked under SpecManager.             *)
(***************************************************************************)
\* C7: connect and disconnect leave what get_history returns for every
\* session as it was, so the messages appended before a disconnect are
\* returned in the same order after any number of such calls.
C7_HistorySurvivesReconnect ==
    [][ret'.op \in {"connect", "disconnect"} =>
          \A sid \in SessionIds :
              GetHistory(session_history', sid)
                  = GetHistory(session_history, sid)
      ]_vars

\* A session with two different messages stored was disconnected and has
\* just connected again under the same id.
C7_Witness ==
    /\ ret.op = "connect"
    /\ ~ret.raised
    /\ ret.after_disconnect
    /\ ret.had = 2
    /\ Len(session_history[ret.sid]) = 2
    /\ session_history[ret.sid][1] # session_history[ret.sid][2]

\* How many times handle ws occurs in the sequence of handles sent to.
Deliveries(sent, ws) == Cardinality({i \in DOMAIN sent : sent[i] = ws})

\* C8: a broadcast over N registered handles in which exactly one send
\* fails delivers once to each of the other N-1 handles, not to the failing
\* one, and leaves N-1 active connections.
C8_BroadcastSkipsOnlyFailed ==
    (ret.op = "broadcast" /\ Cardinality(ret.failing) = 1) =>
        /\ \A i \in DOMAIN ret.before :
               Deliveries(ret.sent, ret.before[i].ws)
                   = IF ret.before[i].sid \in ret.failing THEN 0 ELSE 1
        /\ Len(ret.sent) = Len(ret.before) - 1
        /\ active_connections = Len(ret.before) - 1

\* A broadcast over three handles of which the first one failed.
C8_Witness ==
    /\ ret.op = "broadcast"
    /\ Len(ret.before) = 3
    /\ ret.failing = {ret.before[1].sid}

\* C9: send_message to a session id with no registered handle returns
\* False, attempts no delivery and leaves both maps as they were.
C9_SendToUnknownIsNoop ==
    [][(ret'.op = "send_message" /\ ret'.sid \notin ConnIds(connections)) =>
          /\ ret'.result = FALSE
          /\ ret'.attempted = <<>>
          /\ ~ret'.raised
          /\ connections' = connections
          /\ session_history' = session_history
      ]_vars

\* A send to an id that has neither handle nor history, while other
\* sessions are connected.
C9_Witness ==
    /\ ret.op = "send_message"
    /\ ~ret.registered
    /\ ret.sid \notin DOMAIN session_history
    /\ ret.sid \notin ConnIds(connections)
    /\ connections # <<>>

\* C10: send_message never raises; a failed delivery returns False and
\* unregisters the handle with the history unchanged, a successful one
\* returns True and keeps the handle registered.
C10_SendFailureDisconnects ==
    [][ret'.op = "send_message" =>
          /\ ~ret'.raised
          /\ (ret'.sid \in ConnIds(connections) /\ ret'.failed) =>
                 /\ ret'.result = FALSE
                 /\ ret'.sid \notin ConnIds(connections')
                 /\ session_history' = session_history
          /\ (ret'.sid \in ConnIds(connections) /\ ~ret'.failed) =>
                 /\ ret'.result = TRUE
                 /\ Lookup(connections', ret'.sid)
                        = Lookup(connections, ret'.sid)
      ]_vars

\* A delivery to a registered handle failed; the session keeps its history.
C10_Witness ==
    /\ ret.op = "send_message"
    /\ ret.registered
    /\ ret.failed
    /\ ~ret.result
    /\ Len(GetHistory(session_history, ret.sid)) > 0

\* C11: disconnect(session_id) removes the handle entry of that id and
\* nothing else: the history map is untouched and every other id keeps its
\* handle; on an id with no handle it changes nothing, and a second
\* disconnect of the same id changes nothing either.
C11_DisconnectIdempotent ==
    [][ret'.op = "disconnect" =>
          /\ session_history' = session_history
          /\ ret'.sid \notin ConnIds(connections')
          /\ \A sid \in SessionIds \ {ret'.sid} :
                 Lookup(connections', sid) = Lookup(connections, sid)
          /\ ret'.sid \notin ConnIds(connections) =>
                 connections' = connections
          /\ Disconnect(connections', ret'.sid) = connections'
      ]_vars

\* The second of two disconnects of a session in a row, while another
\* session is connected and the disconnected one has history.
C11_Witness ==
    /\ ret.op = "disconnect"
    /\ ret.again
    /\ ~ret.registered
    /\ connections # <<>>
    /\ Len(GetHistory(session_history, ret.sid)) > 0

\* C12: disconnect_all attempts one close on every registered handle,
\* whichever closes raise, raises nothing itself and leaves the handle map
\* empty.
C12_DisconnectAllClosesEvery ==
    ret.op = "disconnect_all" =>
        /\ \A i \in DOMAIN ret.before :
               Deliveries(ret.closed, ret.before[i].ws) = 1
        /\ Len(ret.closed) = Len(ret.before)
        /\ ~ret.raised
        /\ connections = <<>>

\* A disconnect_all over three handles in which the close of the first
\* handle raised.
C12_Witness ==
    /\ ret.op = "disconnect_all"
    /\ Len(ret.before) = 3
    /\ ret.failing = {ret.before[1].ws}

\* C18: no session id has two entries in the handle map; a connect with
\* an id that has a live handle puts the new handle in its place, adds no
\* entry and leaves the histories as they were.
C18_LastConnectWins ==
    [][/\ \A i \in DOMAIN connections', j \in DOMAIN connections' :
              connections'[i].sid = connections'[j].sid => i = j
       /\ (ret'.op = "connect" /\ ~ret'.raised
              /\ ret'.sid \in ConnIds(connections)) =>
              /\ Lookup(connections', ret'.sid) = ret'.ws
              /\ Lookup(connections, ret'.sid) # ret'.ws
              /\ Len(connections') = Len(connections)
              /\ session_history' = session_history
      ]_vars

\* A connect took the place of a live handle of a session with history,
\* while another session was connected.
C18_Witness ==
    /\ ret.op = "connect"
    /\ ~ret.raised
    /\ ret.live
    /\ ret.had > 0
    /\ Len(connections) = 2
    /\ Lookup(connections, ret.sid) = ret.ws

\* C24: add_to_history leaves the session's log one message longer, the
\* message last and the earlier ones in place, making the log when it was
\* absent; get_history returns the log as appended, empty for a session
\* without one, and changes nothing; clear_history leaves the log empty.
\* None of them touches the log of another session or the handles, so
\* appends to one session in any order of arrival lose, repeat and split
\* nothing.
C24_HistoryAppendsWhole ==
    [][/\ ret'.op = "add_to_history" =>
              LET old == GetHistory(session_history, ret'.sid)
                  new == session_history'[ret'.sid]
              IN /\ ret'.sid \in DOMAIN session_history'
                 /\ Len(new) = Len(old) + 1
                 /\ new[Len(new)] = ret'.message
                 /\ SubSeq(new, 1, Len(old)) = old
       /\ ret'.op = "get_history" =>
              /\ ret'.history = IF ret'.sid \in DOMAIN session_history
                                THEN session_history[ret'.sid] ELSE <<>>
              /\ session_history' = session_history
       /\ ret'.op = "clear_history" =>
              GetHistory(session_history', ret'.sid) = <<>>
       /\ ret'.op \in {"add_to_history", "get_history", "clear_history"} =>
              /\ connections' = connections
              /\ \A sid \in SessionIds \ {ret'.sid} :
                     /\ (sid \in DOMAIN session_history')
                            = (sid \in DOMAIN session_history)
                     /\ GetHistory(session_history', sid)
                            = GetHistory(session_history, sid)
      ]_vars

\* Two different messages were appended to a session that never
\* connected, while another session holds a handle.
C24_Witness ==
    /\ ret.op = "add_to_history"
    /\ ret.sid \notin ConnIds(connections)
    /\ connections # <<>>
    /\ Len(session_history[ret.sid]) = 2
    /\ session_history[ret.sid][1] # session_history[ret.sid][2]
    /\ session_history[ret.sid][2] = ret.message

(***************************************************************************)
(* The WebSocket endpoints (websocket/chat.py, websocket/voice.py) and     *)
(* their authentication (websocket/auth.py).                               *)
(***************************************************************************)
WS_CLOSE_AUTH_REQUIRED == 4001

WS_CLOSE_AUTH_FAILED == 4002

\* The tokens a client may send in the query string; None is no token.
Tokens == {None, "", "secret", "wrong", "s\\u00e9cret"}

\* The values settings.websocket_auth_token may have.
ExpectedTokens == {"", "secret", "s\\u00e9cret"}

\* The strings that hold a character outside ASCII.
NonAscii == {"s\\u00e9cret"}

\* secrets.compare_digest(a, b) on two str: equality, and TypeError when
\* either holds a non-ASCII character.
CompareDigest(a, b) ==
    IF a \in NonAscii \/ b \in NonAscii
    THEN [raised |-> TRUE, value |-> FALSE]
    ELSE [raised |-> FALSE, value |-> a = b]

\* verify_token(token, expected_token)
VerifyToken(token, expected) ==
    IF token = None THEN [raised |-> FALSE, value |-> FALSE]
    ELSE CompareDigest(token, expected)

\* is_auth_enabled(auth_token): bool(auth_token)
IsAuthEnabled(auth_token) == auth_token # ""

\* authenticate_websocket(websocket, token, app_state): what it returns or
\* that it raised, and the code it closed the connection with (0: it did
\* not close it).
AuthenticateWebsocket(token, expected) ==
    IF ~IsAuthEnabled(expected)
    THEN [raised |-> FALSE, value |-> TRUE, close |-> 0]
    ELSE IF token = None
    THEN [raised |-> FALSE, value |-> FALSE, close |-> WS_CLOSE_AUTH_REQUIRED]
    ELSE LET v == VerifyToken(token, expected) IN
         IF v.raised THEN [raised |-> TRUE, value |-> FALSE, close |-> 0]
         ELSE IF ~v.value
         THEN [raised |-> FALSE, value |-> FALSE,
               close |-> WS_CLOSE_AUTH_FAILED]
         ELSE [raised |-> FALSE, value |-> TRUE, close |-> 0]

\* The connections whose handlers are followed.
Sockets == {"w1", "w2"}

\* A connection no client has opened yet.
FreshSocket ==
    [pc         |-> "idle",     \* where its handler stands
     token      |-> None,       \* the token query parameter
     requested  |-> None,       \* the session_id query parameter
     session_id |-> None,       \* the id manager.connect returned
     auth       |-> "none",     \* ok, required, failed or raised
     accepted   |-> FALSE,      \* websocket.accept() returned
     registered |-> FALSE,      \* manager.connect registered the handle
     frames     |-> FALSE,      \* an application frame was sent on it
     raised     |-> FALSE,      \* the handler ended by an exception
     frame      |-> None,       \* the type of the frame being handled
     admitted   |-> "none",     \* check_ws on that frame: yes, no, or
                                \* none when the frame is not checked
     denied     |-> FALSE]      \* a frame of the connection was refused

\* The handles registered in the manager.
ConnHandles(conns) == {conns[i].ws : i \in DOMAIN conns}

\* The configuration of the limiter the endpoints consult.
HandlerConfig ==
    [http_requests_per_minute |-> 60, http_burst_limit |-> 2,
     ws_messages_per_minute   |-> 30, ws_burst_limit   |-> 1,
     enabled                  |-> TRUE]

InitHandler ==
    /\ clock = 0
    /\ ret = [op |-> "init"]
    /\ expected_token \in ExpectedTokens
    /\ socket = [w \in Sockets |-> FreshSocket]
    /\ config = HandlerConfig
    /\ http_buckets = EmptyPool
    /\ ws_buckets = EmptyPool
    /\ was_reset = [http |-> EmptyPool, ws |-> EmptyPool]
    /\ ManagerIdle
    /\ BucketIdle
    /\ SweepIdle
    /\ MiddlewareIdle
    /\ ServiceIdle

\* The endpoint each connection is made to: /ws/chat (websocket_chat) or
\* /ws/voice (websocket_voice).
Endpoint == [w \in Sockets |-> IF w = "w1" THEN "chat" ELSE "voice"]

\* What a client may send: a frame of one of these types, or it goes away
\* ("disconnect", WebSocketDisconnect), or what it sends makes the handler
\* raise ("invalid").
Events ==
    {"message", "audio", "transcribe", "synthesize", "clear_history",
     "ping", "other", "disconnect", "invalid"}

\* The frame types the endpoint hands to its service.
Served(endpoint) ==
    IF endpoint = "chat" THEN {"message"}
    ELSE {"audio", "transcribe", "synthesize"}

\* Seconds of wall-clock time covered by SpecLoop.
MaxLoopSeconds == 2

\* Mutant of Dispatch: the answer of check_ws_rate_limit is not looked at.
DispatchUnlimited(endpoint, event, allowed, blank) ==
    CASE event \in Served(endpoint) /\ blank ->
             IF endpoint = "chat" THEN "receive" ELSE "reply"
      [] event \in Served(endpoint) /\ ~blank ->
             IF endpoint = "chat" THEN "ack" ELSE "notify"
      [] event \in {"clear_history", "ping"} -> "reply"
      [] event \in {"disconnect", "invalid"} -> "ended"
      [] OTHER -> "receive"

\* The if / elif chain of the message loop on a received frame, up to the
\* next await: where the handler goes on.  `allowed` is what
\* check_ws_rate_limit answered and `blank` whether the frame has no
\* content.  A refused frame gets the error frame and the loop continues;
\* an admitted chat message is acknowledged and processed unless it is
\* blank; an admitted voice frame without data is answered by a validation
\* error, and otherwise announced by a processing frame and processed.
Dispatch(endpoint, event, allowed, blank) ==
    CASE event \in Served(endpoint) /\ ~allowed -> "rate_limited"
      [] event \in Served(endpoint) /\ allowed /\ blank ->
             IF endpoint = "chat" THEN "receive" ELSE "reply"
      [] event \in Served(endpoint) /\ allowed /\ ~blank ->
             IF endpoint = "chat" THEN "ack" ELSE "notify"
      [] event \in {"clear_history", "ping"} -> "reply"
      [] event \in {"disconnect", "invalid"} -> "ended"
      [] OTHER -> "receive"

\* Time passes, a second at a time.
LoopTick ==
    /\ clock + Pow2(TickBits) <= MaxLoopSeconds * Pow2(TickBits)
    /\ clock' = clock + Pow2(TickBits)
    /\ ret' = [op |-> "tick"]
    /\ UNCHANGED <<bucketVars, serviceVars, limiterVars, managerVars, taskVars>>

\* A client opens the WebSocket w with these query parameters.
open(w, token, requested) ==
    /\ socket[w].pc = "idle"
    /\ socket' = [socket EXCEPT ![w].pc = "authenticate",
                                ![w].token = token,
                                ![w].requested = requested]
    /\ ret' = [op |-> "open", ws |-> w]
    /\ UNCHANGED <<clock, bucketVars, serviceVars, limiterVars, managerVars,
                   expected_token, sweep, requests>>

\* if not await authenticate_websocket(websocket, token, app_state): return
authenticate(w) ==
    LET r == AuthenticateWebsocket(socket[w].token, expected_token) IN
    /\ socket[w].pc = "authenticate"
    /\ socket' = [socket EXCEPT
           ![w].pc = IF ~r.raised /\ r.value THEN "connect" ELSE "ended",
           ![w].auth = IF r.raised THEN "raised"
                       ELSE IF r.value THEN "ok"
                       ELSE IF r.close = WS_CLOSE_AUTH_REQUIRED THEN "required"
                       ELSE "failed",
           ![w].token = None,
           ![w].raised = r.raised]
    /\ ret' = [op |-> "authenticate", ws |-> w, token |-> socket[w].token,
               expected |-> expected_token, raised |-> r.raised,
               value |-> r.value, close |-> r.close]
    /\ UNCHANGED <<clock, bucketVars, serviceVars, limiterVars, managerVars,
                   expected_token, sweep, requests>>

\* session_id = await manager.connect(websocket, session_id)
handler_connect(w, sid, accept_ok) ==
    /\ socket[w].pc = "connect"
    /\ IF socket[w].requested \in Falsy
       THEN sid \in Uuids \ (DOMAIN session_history \cup ConnIds(connections))
       ELSE sid = socket[w].requested
    /\ used' = used \cup {w}
    /\ connections' = IF accept_ok THEN SetConn(connections, sid, w)
                      ELSE connections
    /\ session_history' = IF accept_ok THEN EnsureHistory(session_history, sid)
                          ELSE session_history
    /\ socket' = [socket EXCEPT
           ![w].pc = IF accept_ok THEN "send_connected" ELSE "ended",
           ![w].session_id = IF accept_ok THEN sid ELSE None,
           ![w].requested = None,
           ![w].accepted = accept_ok,
           ![w].registered = accept_ok,
           ![w].raised = ~accept_ok]
    /\ ret' = [op |-> "handler_connect", ws |-> w]
    /\ UNCHANGED <<clock, bucketVars, serviceVars, limiterVars, expected_token, sweep,
                   requests>>

\* await websocket.send_json({"type": "connected", ...}), outside the try
\* block: a send that raises ends the handler.
send_connected(w, ok) ==
    /\ socket[w].pc = "send_connected"
    /\ socket' = [socket EXCEPT
           ![w].pc = IF ok THEN "send_history" ELSE "ended",
           ![w].frames = @ \/ ok,
           ![w].raised = ~ok]
    /\ ret' = [op |-> "send_connected", ws |-> w]
    /\ UNCHANGED <<clock, bucketVars, serviceVars, limiterVars, managerVars,
                   expected_token, sweep, requests>>

\* history = ...format_history_for_client(session_id); if history: await
\* websocket.send_json({"type": "history", ...}), outside the try block.
\* `outcome` is "none" (no history), "sent" or "failed".
send_history(w, outcome) ==
    /\ socket[w].pc = "send_history"
    /\ socket' = [socket EXCEPT
           ![w].pc = IF outcome = "failed" THEN "ended" ELSE "receive",
           ![w].raised = (outcome = "failed")]
    /\ ret' = [op |-> "send_history", ws |-> w, outcome |-> outcome]
    /\ UNCHANGED <<clock, bucketVars, serviceVars, limiterVars, managerVars,
                   expected_token, sweep, requests>>

\* data = await websocket.receive_json() and the dispatch on its type, up
\* to the next await.  `event` is the type of the frame received, or
\* "disconnect" (WebSocketDisconnect) or "invalid" (any other exception);
\* `blank` says whether the frame's content is empty.  A frame of a type
\* the endpoint serves is first put to check_ws_rate_limit under the
\* connection's session id.
receive(w, event, blank) ==
    LET sid     == socket[w].session_id
        checked == event \in Served(Endpoint[w])
    IN
    /\ socket[w].pc = "receive"
    /\ ~checked => ~blank
    /\ \E r \in {IF checked THEN CheckWs(config, ws_buckets, sid)
               ELSE [buckets |-> ws_buckets, allowed |-> TRUE,
                     retry_after |-> Zero]} :
       /\ ws_buckets' = r.buckets
       /\ connections' = IF event \in {"disconnect", "invalid"}
                         THEN Disconnect(connections, sid) ELSE connections
       /\ \E pc \in {Dispatch(Endpoint[w], event, r.allowed, blank)} :
              socket' = [socket EXCEPT
                 ![w].pc = pc,
                 ![w].frame = IF pc \in {"receive", "ended"} THEN None
                              ELSE event,
                 ![w].admitted = IF ~checked \/ pc \in {"receive", "ended"}
                                 THEN "none"
                                 ELSE IF r.allowed THEN "yes" ELSE "no",
                 ![w].denied = @ \/ (checked /\ ~r.allowed)]
       /\ ret' = [op |-> "receive", ws |-> w, event |-> event,
                  key |-> IF checked THEN sid ELSE None]
       /\ UNCHANGED <<clock, bucketVars, serviceVars, config, http_buckets, was_reset,
                      session_history, used, expected_token, sweep, requests>>

\* await app_state.chat_service.process_message(...), or the calls of the
\* voice service in _handle_audio_message, _handle_transcribe_message and
\* _handle_synthesize_message: the service answers or raises; when the
\* agent changed appointments (chat messages and audio frames) the answer
\* is preceded by a broadcast, in which the sends to the sessions `failing`
\* raise.
process(w, answered, failing) ==
    /\ socket[w].pc = "process"
    /\ ~answered => failing = {}
    /\ socket[w].frame \notin {"message", "audio"} => failing = {}
    /\ connections' = Broadcast(connections, failing).connections
    /\ socket' = [socket EXCEPT
           ![w].pc = IF answered THEN "respond" ELSE "error"]
    /\ ret' = [op |-> "process", ws |-> w]
    /\ UNCHANGED <<clock, bucketVars, serviceVars, limiterVars, session_history, used,
                   expected_token, sweep, requests>>

\* The frame the handler sends at this point of its loop, and where it goes
\* on when the send returns.
AfterSend(pc) ==
    CASE pc = "rate_limited" -> "receive"
      [] pc = "ack"          -> "process"
      [] pc = "notify"       -> "process"
      [] pc = "respond"      -> "receive"
      [] pc = "error"        -> "receive"
      [] pc = "reply"        -> "receive"

\* The sends made inside the try of the message handling, whose except
\* clause answers a failure by an error frame: the response, and on the
\* voice endpoint the processing frame.
Guarded == {"respond", "notify"}

\* await websocket.send_json(...) inside the message loop.  A guarded send
\* that raises is caught by the inner except, which sends an error frame;
\* any other send that raises reaches the outer except, which calls
\* manager.disconnect(session_id) and ends the handler.
send(w, ok) ==
    LET pc == socket[w].pc IN
    /\ pc \in {"rate_limited", "ack", "notify", "respond", "error", "reply"}
    /\ connections' = IF ~ok /\ pc \notin Guarded
                      THEN Disconnect(connections, socket[w].session_id)
                      ELSE connections
    /\ \E to \in {IF ok THEN AfterSend(pc)
                   ELSE IF pc \in Guarded THEN "error" ELSE "ended"} :
           socket' = [socket EXCEPT
              ![w].pc = to,
              ![w].frames = @ \/ ok,
              ![w].frame = IF to \in {"receive", "ended"} THEN None ELSE @,
              ![w].admitted = IF to \in {"receive", "ended"} THEN "none"
                              ELSE @]
    /\ ret' = [op |-> "send", ws |-> w, ok |-> ok, at |-> pc]
    /\ UNCHANGED <<clock, bucketVars, serviceVars, limiterVars, session_history, used,
                   expected_token, sweep, requests>>

NextHandler ==
    \/ \E w \in Sockets, token \in Tokens, requested \in {None, "s1"} :
           open(w, token, requested)
    \/ \E w \in Sockets : authenticate(w)
    \/ \E w \in Sockets, sid \in SessionIds, accept_ok \in BOOLEAN :
           handler_connect(w, sid, accept_ok)
    \/ \E w \in Sockets, ok \in BOOLEAN : send_connected(w, ok)
    \/ \E w \in Sockets, outcome \in {"none", "sent", "failed"} :
           send_history(w, outcome)
    \/ \E w \in Sockets, blank \in BOOLEAN, event \in Events :
           receive(w, event, blank)
    \/ \E w \in Sockets, answered \in BOOLEAN,
          failing \in SUBSET ConnIds(connections) :
           process(w, answered, failing)
    \/ \E w \in Sockets, ok \in BOOLEAN : send(w, ok)

SpecHandler == InitHandler /\ [][NextHandler]_vars

\* A connection whose handler has sent the connected frame and stands in
\* its message loop.
LoopSocket(sid) ==
    [FreshSocket EXCEPT !.pc = "receive", !.session_id = sid, !.auth = "ok",
                        !.accepted = TRUE, !.registered = TRUE,
                        !.frames = TRUE]

\* The message loops of a chat and a voice connection, made in this order
\* with authentication disabled, under two session ids or under the same;
\* the broadcasts made on the way reach every handle.
InitLoop ==
    /\ clock = 0
    /\ ret = [op |-> "init"]
    /\ expected_token = ""
    /\ \E sid \in {"s1", "u1"} :
           /\ socket = [w \in Sockets |->
                            LoopSocket(IF w = "w1" THEN "s1" ELSE sid)]
           /\ connections = SetConn(SetConn(<<>>, "s1", "w1"), sid, "w2")
           /\ session_history = EnsureHistory(EnsureHistory(EmptyPool, "s1"),
                                              sid)
    /\ used = Sockets
    /\ config = HandlerConfig
    /\ http_buckets = EmptyPool
    /\ ws_buckets = EmptyPool
    /\ was_reset = [http |-> EmptyPool, ws |-> EmptyPool]
    /\ BucketIdle
    /\ SweepIdle
    /\ MiddlewareIdle
    /\ ServiceIdle

NextLoop ==
    \/ LoopTick
    \/ \E w \in Sockets, blank \in BOOLEAN, event \in Events :
           receive(w, event, blank)
    \/ \E w \in Sockets, answered \in BOOLEAN : process(w, answered, {})
    \/ \E w \in Sockets, ok \in BOOLEAN : send(w, ok)

SpecLoop == InitLoop /\ [][NextLoop]_vars

(***************************************************************************)
(* Properties of the endpoints, checked under SpecHandler.                 *)
(***************************************************************************)
\* C13: with authentication enabled, authenticate_websocket answers a
\* missing token by closing with 4001 and a wrong token by closing with
\* 4002, returning False both times; a connection so rejected is never
\* accepted, never registered and never sent an application frame.
C13_RejectedBeforeAccept ==
    /\ (ret.op = "authenticate" /\ IsAuthEnabled(ret.expected)) =>
           /\ ret.token = None =>
                  /\ ~ret.raised /\ ~ret.value
                  /\ ret.close = WS_CLOSE_AUTH_REQUIRED
           /\ (ret.token # None /\ ret.token # ret.expected) =>
                  /\ ~ret.raised /\ ~ret.value
                  /\ ret.close = WS_CLOSE_AUTH_FAILED
    /\ \A w \in Sockets :
           socket[w].auth \in {"required", "failed"} =>
               /\ ~socket[w].accepted
               /\ ~socket[w].registered
               /\ ~socket[w].frames
               /\ w \notin ConnHandles(connections)

\* C14: authenticate_websocket returns True exactly when the configured
\* token is empty or the token sent is present and equal to it, and it has
\* then not closed the connection.
C14_AuthenticatesExactly ==
    ret.op = "authenticate" =>
        /\ (~ret.raised /\ ret.value)
               = (\/ ret.expected = ""
                  \/ ret.token # None /\ ret.token = ret.expected)
        /\ (~ret.raised /\ ret.value) => ret.close = 0

\* C19: once the handler of a registered connection has ended, the
\* manager holds no handle for that connection.
C19_EndedHandlerUnregistered ==
    \A w \in Sockets :
        (socket[w].pc = "ended" /\ socket[w].registered) =>
            w \notin ConnHandles(connections)

(***************************************************************************)
(* Properties of the message loops, checked under SpecLoop.                *)
(***************************************************************************)
\* The positions of a handler between the admission of a frame and the end
\* of the service's work on it.
Serving == {"ack", "notify", "process", "respond", "error"}

\* C23: a frame is handed to the chat or voice service only after check_ws
\* admitted it under the connection's session id; a refused frame is
\* answered by the error frame and not processed, and when that frame is
\* sent the handler is back at receive_json with its handle as it was.
C23_ServedFramesAdmitted ==
    [][/\ \A w \in Sockets :
              socket'[w].pc \in Serving =>
                  /\ socket'[w].admitted = "yes"
                  /\ socket'[w].frame \in Served(Endpoint[w])
       /\ (ret'.op = "receive" /\ ret'.event \in Served(Endpoint[ret'.ws])) =>
              /\ ret'.key = socket[ret'.ws].session_id
              /\ \E c \in {CheckWs(config, ws_buckets, ret'.key)} :
                     /\ ws_buckets' = c.buckets
                     /\ ~c.allowed =>
                            /\ socket'[ret'.ws].pc = "rate_limited"
                            /\ socket'[ret'.ws].admitted = "no"
       /\ (ret'.op = "send" /\ ret'.at = "rate_limited" /\ ret'.ok) =>
              /\ socket'[ret'.ws].pc = "receive"
              /\ connections' = connections
      ]_vars

\* Both connections had a frame refused, and after the refill a chat
\* message and a synthesize frame were admitted and are with the services.
C23_Witness ==
    /\ \A w \in Sockets :
           /\ socket[w].denied
           /\ socket[w].pc = "process"
           /\ socket[w].admitted = "yes"
           /\ w \in ConnHandles(connections)
    /\ socket["w1"].frame = "message"
    /\ socket["w2"].frame = "synthesize"

\* C29: when two connections use one session id, the end of the earlier
\* connection's handler does not unregister the later connection's handle:
\* a registered handle leaves the registry only when its own handler ends
\* or a send to it fails (in a broadcast), a later connect under its id
\* aside.
C29_HandleOutlivesEarlierHandler ==
    [][\A w \in Sockets :
          (w \in ConnHandles(connections) /\ w \notin ConnHandles(connections'))
          => \/ socket'[w].pc = "ended"
             \/ ret'.op = "process"
             \/ ret'.op = "handler_connect"]_vars

(***************************************************************************)
(* broadcast step by step: the sweep of ConnectionManager.broadcast is     *)
(* suspended at each await websocket.send_json, and there the connect and  *)
(* disconnect calls of other tasks run.                                    *)
(***************************************************************************)
\* The frame of a broadcast that has not started.
NoSweep == [pc |-> "idle"]

\* next() on the iterator of self._connections.items(), asked for the entry
\* at position nxt.  The iterator raises RuntimeError when the dict's size
\* differs from the size at its creation, or when it finds an entry after
\* having yielded that many; past the last entry the loop is over and the
\* session ids collected are disconnected.  Otherwise the entry is bound to
\* (session_id, websocket) and send_json is awaited on it.
SweepNext(conns, sw, nxt) ==
    IF Len(conns) # sw.di_used
    THEN [connections |-> conns,
          sweep |-> [sw EXCEPT !.pc = "done", !.raised = TRUE]]
    ELSE IF nxt > Len(conns)
    THEN [connections |-> Prune(conns, sw.disconnected),
          sweep |-> [sw EXCEPT !.pc = "done"]]
    ELSE IF sw.len = 0
    THEN [connections |-> conns,
          sweep |-> [sw EXCEPT !.pc = "done", !.raised = TRUE]]
    ELSE [connections |-> conns,
          sweep |-> [sw EXCEPT !.pc = "sending",
                               !.pos = nxt,
                               !.len = @ - 1,
                               !.current = conns[nxt],
                               !.attempted = Append(@, conns[nxt].ws)]]

InitSweep ==
    /\ clock = 0
    /\ ret = [op |-> "init"]
    /\ connections = <<>>
    /\ session_history = EmptyPool
    /\ used = {}
    /\ sweep = NoSweep
    /\ BucketIdle
    /\ LimiterIdle
    /\ HandlerIdle
    /\ MiddlewareIdle
    /\ ServiceIdle

\* await manager.broadcast(message) is called: the iterator is made and
\* asked for its first entry.
start_broadcast ==
    LET sw == [pc |-> "iterate", pos |-> 0,
               di_used |-> Len(connections),    \* the size the iterator saw
               len |-> Len(connections),        \* entries it has yet to yield
               current |-> None,                \* (session_id, websocket)
               disconnected |-> <<>>,           \* the list `disconnected`
               attempted |-> <<>>,              \* handles send_json ran on
               start |-> connections,           \* the map at the call
               gone |-> {},                     \* handles others removed since
               mutated |-> FALSE,               \* a key was added or removed
               reconnected |-> EmptyPool,       \* ids connected since, with
                                                \* the handle registered
               raised |-> FALSE]                \* broadcast raised
        r  == SweepNext(connections, sw, 1)
    IN
    /\ sweep.pc \in {"idle", "done"}
    /\ connections' = r.connections
    /\ sweep' = r.sweep
    /\ ret' = [op |-> "start_broadcast"]
    /\ UNCHANGED <<clock, bucketVars, serviceVars, limiterVars, session_history, used,
                   handlerVars, requests>>

\* The send_json the broadcast awaits returns (ok) or raises, and the loop
\* goes on to its next entry: the one after the current entry, or, after
\* keys were added and removed (which may have moved the entries in the
\* dict's table), any later position.
sweep_send(ok, nxt) ==
    LET sw == IF ok THEN sweep
              ELSE [sweep EXCEPT
                       !.disconnected = Append(@, sweep.current.sid)]
        r  == SweepNext(connections, sw, nxt)
    IN
    /\ sweep.pc = "sending"
    /\ IF sweep.mutated THEN nxt \in (sweep.pos + 1)..(Len(connections) + 1)
       ELSE nxt = sweep.pos + 1
    /\ connections' = r.connections
    /\ sweep' = r.sweep
    /\ ret' = [op |-> "sweep_send", ok |-> ok]
    /\ UNCHANGED <<clock, bucketVars, serviceVars, limiterVars, session_history, used,
                   handlerVars, requests>>

\* The frame of a running broadcast after another task's connect put ws
\* under sid: an entry for a new key goes last in the dict.
SweepAfterConnect(conns, sw, sid, ws) ==
    IF sw.pc # "sending" THEN sw
    ELSE [sw EXCEPT
             !.mutated = @ \/ sid \notin ConnIds(conns),
             !.gone = IF sid \in ConnIds(conns)
                      THEN @ \cup {Lookup(conns, sid)} ELSE @,
             !.reconnected =
                 [k \in DOMAIN @ \cup {sid} |-> IF k = sid THEN ws ELSE @[k]]]

\* The frame of a running broadcast after another task's disconnect(sid):
\* the entries after the removed one move up.
SweepAfterDisconnect(conns, sw, sid) ==
    IF sw.pc # "sending" \/ sid \notin ConnIds(conns) THEN sw
    ELSE [sw EXCEPT
             !.mutated = TRUE,
             !.pos = IF IndexOf(conns, sid) <= @ THEN @ - 1 ELSE @,
             !.gone = @ \cup {Lookup(conns, sid)},
             !.reconnected = [k \in DOMAIN @ \ {sid} |-> @[k]]]

\* Another task's await manager.connect(websocket, session_id).
sweep_connect(ws, requested, sid, accept_ok) ==
    /\ ws \notin used
    /\ IF requested \in Falsy
       THEN sid \in Uuids \ (DOMAIN session_history \cup ConnIds(connections))
       ELSE sid = requested
    /\ used' = used \cup {ws}
    /\ connections' = IF accept_ok THEN SetConn(connections, sid, ws)
                      ELSE connections
    /\ session_history' = IF accept_ok THEN EnsureHistory(session_history, sid)
                          ELSE session_history
    /\ sweep' = IF accept_ok THEN SweepAfterConnect(connections, sweep, sid, ws)
                ELSE sweep
    /\ ret' = [op |-> "connect", sid |-> sid, ws |-> ws]
    /\ UNCHANGED <<clock, bucketVars, serviceVars, limiterVars, handlerVars, requests>>

\* Another task's manager.disconnect(session_id).
sweep_disconnect(sid) ==
    /\ connections' = Disconnect(connections, sid)
    /\ sweep' = SweepAfterDisconnect(connections, sweep, sid)
    /\ ret' = [op |-> "disconnect", sid |-> sid]
    /\ UNCHANGED <<clock, bucketVars, serviceVars, limiterVars, session_history, used,
                   handlerVars, requests>>

NextSweep ==
    \/ start_broadcast
    \/ \E ok \in BOOLEAN, nxt \in 1..(Cardinality(Handles) + 1) :
           sweep_send(ok, nxt)
    \/ \E ws \in Handles, requested \in ClientIds \cup Falsy,
          sid \in SessionIds, accept_ok \in BOOLEAN :
           sweep_connect(ws, requested, sid, accept_ok)
    \/ \E sid \in SessionIds : sweep_disconnect(sid)

SpecSweep == InitSweep /\ [][NextSweep]_vars

(***************************************************************************)
(* Properties of the interleaved broadcast, checked under SpecSweep.       *)
(***************************************************************************)
\* The broadcast has just returned or raised.
SweepOver == ret.op \in {"start_broadcast", "sweep_send"} /\ sweep.pc = "done"

\* The session ids whose send raised during the sweep.
FailedIds == {sweep.disconnected[i] : i \in DOMAIN sweep.disconnected}

\* C15: when a session whose old handle failed in the sweep has connected
\* again under the same id while the sweep ran, the pruning that ends the
\* broadcast leaves its new handle registered.
C15_PruneSparesReconnected ==
    (SweepOver /\ ~sweep.raised) =>
        \A sid \in DOMAIN sweep.reconnected \cap FailedIds :
            Lookup(connections, sid) = sweep.reconnected[sid]

\* C16: a broadcast during whose sends other tasks connect or disconnect
\* ends without raising, having attempted a send to every handle that was
\* registered when it started and was not removed meanwhile.
C16_SweepSurvivesMutation ==
    SweepOver =>
        /\ ~sweep.raised
        /\ \A i \in DOMAIN sweep.start :
               sweep.start[i].ws \notin sweep.gone =>
                   Deliveries(sweep.attempted, sweep.start[i].ws) = 1

(***************************************************************************)
(* The requests that pass the limiter: HTTP requests through               *)
(* RateLimitMiddleware.__call__ and WebSocket messages through             *)
(* check_ws_rate_limit (rate_limit.py).  A request is suspended only at    *)
(* its awaits, where the other requests run.                               *)
(***************************************************************************)
\* The requests followed, in the order of their arrival.
Arrivals == <<"r1", "r2", "r3">>

Requests == {Arrivals[i] : i \in DOMAIN Arrivals}

\* scope["type"] of an ASGI call.
ScopeTypes == {"http", "websocket"}

\* request.url.path
Paths == {"/health", "/health/", "/api/appointments"}

\* exclude_paths or ["/health", "/healthz", "/"]
ExcludePaths == {"/health", "/healthz", "/"}

\* The Upgrade header of a request; None when it has none.
Upgrades == {None, "WebSocket", "h2c"}

\* str.lower() on the header values.
Lower(h) == IF h \in {"WebSocket", "WEBSOCKET"} THEN "websocket" ELSE h

\* request.headers.get("upgrade", "")
GetUpgrade(upgrade) == IF upgrade = None THEN "" ELSE upgrade

\* int(x) for a float x >= 0: truncation.
IntOf(x) == IF x.e >= 0 THEN x.m * Pow2(x.e) ELSE x.m \div Pow2(0 - x.e)

\* Whether __call__ passes the request on without consulting the limiter.
Bypasses(scope_type, path, upgrade) ==
    \/ scope_type # "http"
    \/ path \in ExcludePaths
    \/ Lower(GetUpgrade(upgrade)) = "websocket"

\* Mutant of Middleware: only non-HTTP scopes are passed on unchecked.
MiddlewareChecksAllHttp(cfg, buckets, scope_type, path, upgrade, key) ==
    IF scope_type # "http"
    THEN [checked |-> FALSE,
          check |-> [buckets |-> buckets, allowed |-> TRUE,
                     retry_after |-> Zero]]
    ELSE [checked |-> TRUE, check |-> CheckHttp(cfg, buckets, key)]

\* RateLimitMiddleware.__call__ up to its await: whether check_http was
\* called, and its answer with the HTTP pool afterwards (a request passed
\* on unchecked leaves the pool as it is).
Middleware(cfg, buckets, scope_type, path, upgrade, key) ==
    IF Bypasses(scope_type, path, upgrade)
    THEN [checked |-> FALSE,
          check |-> [buckets |-> buckets, allowed |-> TRUE,
                     retry_after |-> Zero]]
    ELSE [checked |-> TRUE, check |-> CheckHttp(cfg, buckets, key)]

\* The response the middleware makes itself: 429 when the check refused
\* (0: the request is passed on to the application).
Status(allowed) == IF allowed THEN 0 ELSE 429

\* The Retry-After header of the 429 response and the retry_after field of
\* the WebSocket error frame: int(retry_after) + 1.
RetryAfter(allowed, retry_after) ==
    IF allowed THEN 0 ELSE IntOf(retry_after) + 1

\* Mutant of SendWrapper: the response start is passed on as the
\* application made it.
SendWrapperPassesOn(cfg, headers) == headers

\* send_wrapper on the application's http.response.start message: the
\* header x-ratelimit-limit, str(config.http_requests_per_minute), is
\* appended to the message's headers.
SendWrapper(cfg, headers) ==
    Append(headers,
           <<"x-ratelimit-limit", ToString(cfg.http_requests_per_minute)>>)

\* The headers of the response the application makes.
AppHeaders == << <<"content-type", "application/json">> >>

\* JSONResponse(status_code=429, ...,
\*              headers={"Retry-After": str(int(retry_after) + 1)})
TooManyRequests(retry_after) ==
    [status  |-> 429,
     headers |-> << <<"Retry-After",
                      ToString(RetryAfter(FALSE, retry_after))>> >>]

\* The frame check_ws_rate_limit sends to a client it refuses.
ErrorFrame(retry_after) ==
    [type        |-> "error",
     code        |-> "rate_limit_exceeded",
     retry_after |-> RetryAfter(FALSE, retry_after)]

\* Mutant of CheckWsRateLimit: a refused message is dropped without a
\* frame.
CheckWsRateLimitSilent(cfg, buckets, session_id) ==
    LET c == CheckWs(cfg, buckets, session_id) IN
    [check  |-> c,
     frames |-> <<>>,
     result |-> IF c.allowed THEN "True" ELSE "await"]

\* check_ws_rate_limit(websocket, rate_limiter, session_id) up to its
\* return of True or its await of send_json: the answer of check_ws with
\* the WebSocket pool afterwards, the frames handed to send_json, and what
\* it returned ("await": it has not returned yet).
CheckWsRateLimit(cfg, buckets, session_id) ==
    LET c == CheckWs(cfg, buckets, session_id) IN
    [check  |-> c,
     frames |-> IF c.allowed THEN <<>> ELSE <<ErrorFrame(c.retry_after)>>,
     result |-> IF c.allowed THEN "True" ELSE "await"]

\* Request r is the next to arrive.
Arrives(reqs, r) ==
    \E i \in DOMAIN Arrivals :
        /\ Arrivals[i] = r
        /\ reqs[r].pc = "idle"
        /\ \A j \in 1..(i - 1) : reqs[Arrivals[j]].pc # "idle"

\* A request that has not arrived.
FreshRequest ==
    [pc      |-> "idle",    \* idle, forwarding, rejecting or done
     pool    |-> "none",    \* the pool consulted: http, ws or none
     key     |-> None,      \* the key it was checked under
     allowed |-> FALSE,     \* what the check answered
     at      |-> 0,         \* the tick of the check
     reached |-> FALSE,     \* the application was called with it
     status  |-> 0,         \* the status of its HTTP response, 0: none
     headers |-> <<>>,      \* the headers of its HTTP response
     frames  |-> <<>>,      \* the frames check_ws_rate_limit sent for it
     result  |-> "none"]    \* what check_ws_rate_limit did: "True",
                            \* "False", "raised", or "await"

InitRequests ==
    /\ clock = 0
    /\ ret = [op |-> "init"]
    /\ requests = [r \in Requests |-> FreshRequest]
    /\ config = HandlerConfig
    /\ http_buckets = EmptyPool
    /\ ws_buckets = EmptyPool
    /\ was_reset = [http |-> EmptyPool, ws |-> EmptyPool]
    /\ BucketIdle
    /\ ManagerIdle
    /\ HandlerIdle
    /\ SweepIdle
    /\ ServiceIdle

\* Time passes.
RequestTick ==
    /\ clock < MaxRequestTicks
    /\ clock' = clock + 1
    /\ ret' = [op |-> "tick"]
    /\ UNCHANGED <<bucketVars, serviceVars, limiterVars, managerVars, taskVars>>

\* await middleware(scope, receive, send), up to its await of the
\* application or of the 429 response.
call(r, scope_type, path, upgrade, key) ==
    /\ Arrives(requests, r)
    /\ \E m \in {Middleware(config, http_buckets, scope_type, path, upgrade,
                            key)} :
       /\ http_buckets' = m.check.buckets
       /\ requests' = [requests EXCEPT ![r] =
              [pc      |-> IF m.check.allowed THEN "forwarding" ELSE "rejecting",
               pool    |-> IF m.checked THEN "http" ELSE "none",
               key     |-> key,
               allowed |-> m.check.allowed,
               at      |-> clock,
               reached |-> m.check.allowed,
               status  |-> IF m.check.allowed THEN 0
                           ELSE TooManyRequests(m.check.retry_after).status,
               headers |-> IF m.check.allowed THEN <<>>
                           ELSE TooManyRequests(m.check.retry_after).headers,
               frames  |-> <<>>,
               result  |-> "none"]]
       /\ ret' = [op |-> "call", r |-> r, scope_type |-> scope_type,
                  path |-> path, upgrade |-> upgrade, key |-> key,
                  checked |-> m.checked, allowed |-> m.check.allowed,
                  wait |-> m.check.retry_after,
                  status |-> Status(m.check.allowed),
                  retry_after |-> RetryAfter(m.check.allowed,
                                             m.check.retry_after),
                  was_exhausted |-> Exhausted(http_buckets, key)]
       /\ UNCHANGED <<clock, bucketVars, serviceVars, config, ws_buckets, was_reset,
                      managerVars, handlerVars, sweep>>

\* await check_ws_rate_limit(websocket, rate_limiter, session_id), up to
\* its return of True or its await of the error frame.
ws_check(r, key) ==
    /\ Arrives(requests, r)
    /\ \E c \in {CheckWsRateLimit(config, ws_buckets, key)} :
       /\ ws_buckets' = c.check.buckets
       /\ requests' = [requests EXCEPT ![r] =
              [pc      |-> IF c.check.allowed THEN "done" ELSE "rejecting",
               pool    |-> "ws",
               key     |-> key,
               allowed |-> c.check.allowed,
               at      |-> clock,
               reached |-> FALSE,
               status  |-> 0,
               headers |-> <<>>,
               frames  |-> c.frames,
               result  |-> c.result]]
       /\ ret' = [op |-> "ws_check", r |-> r, key |-> key,
                  allowed |-> c.check.allowed,
                  wait |-> c.check.retry_after,
                  retry_after |-> RetryAfter(c.check.allowed,
                                             c.check.retry_after)]
       /\ UNCHANGED <<clock, bucketVars, serviceVars, config, http_buckets, was_reset,
                      managerVars, handlerVars, sweep>>

\* The await a request is suspended in returns (ok) or raises: the
\* application answers through send_wrapper when the request was checked and
\* through send itself when it was passed on unchecked, the 429 response
\* is sent, or send_json of the error frame ends and check_ws_rate_limit
\* returns False.
finish(r, ok) ==
    /\ requests[r].pc \in {"forwarding", "rejecting"}
    /\ requests' = [requests EXCEPT
           ![r].pc = "done",
           ![r].status = IF requests[r].pc = "forwarding" /\ ok THEN 200
                         ELSE @,
           ![r].headers = IF requests[r].pc = "forwarding" /\ ok
                          THEN IF requests[r].pool = "http"
                               THEN SendWrapper(config, AppHeaders)
                               ELSE AppHeaders
                          ELSE @,
           ![r].result = IF requests[r].pool # "ws" THEN @
                         ELSE IF ok THEN "False" ELSE "raised"]
    /\ ret' = [op |-> "finish", r |-> r, ok |-> ok]
    /\ UNCHANGED <<clock, bucketVars, serviceVars, limiterVars, managerVars, handlerVars,
                   sweep>>

NextRequests ==
    \/ RequestTick
    \/ \E r \in Requests, scope_type \in ScopeTypes, path \in Paths,
          upgrade \in Upgrades, key \in Keys :
           call(r, scope_type, path, upgrade, key)
    \/ \E r \in Requests, key \in Keys : ws_check(r, key)
    \/ \E r \in Requests, ok \in BOOLEAN : finish(r, ok)

SpecRequests == InitRequests /\ [][NextRequests]_vars

(***************************************************************************)
(* Properties of the requests, checked under SpecRequests.                 *)
(***************************************************************************)
\* The requests admitted by pool p under key k at tick t.
Admitted(p, k, t) ==
    {r \in Requests : /\ requests[r].pool = p
                      /\ requests[r].key = k
                      /\ requests[r].at = t
                      /\ requests[r].allowed}

\* C17: however the requests on one key interleave, the key has one bucket
\* in the pool once it was checked, and of the checks made at one instant
\* at most the burst limit are admitted.
C17_AtMostBurstAdmitted ==
    \A k \in Keys, t \in 0..MaxRequestTicks :
        /\ Cardinality(Admitted("http", k, t)) <= config.http_burst_limit
        /\ Cardinality(Admitted("ws", k, t)) <= config.ws_burst_limit
        /\ \A r \in Requests :
               /\ (requests[r].pool = "http" /\ requests[r].key = k) =>
                      k \in DOMAIN http_buckets
               /\ (requests[r].pool = "ws" /\ requests[r].key = k) =>
                      k \in DOMAIN ws_buckets

\* Three requests of one client are in flight together, the first on a key
\* not seen before: two were admitted and one is being rejected.
C17_Witness ==
    /\ Cardinality(Admitted("http", "a", 0)) = 2
    /\ \E r \in Requests :
           /\ requests[r].pool = "http"
           /\ requests[r].key = "a"
           /\ requests[r].pc = "rejecting"
    /\ \A r \in Requests :
           requests[r].pool = "http" => requests[r].pc # "done"

\* C20: a call with a non-HTTP scope, an excluded path or an Upgrade:
\* websocket header is passed on to the application and leaves both pools
\* as they were, whatever the state of the client's bucket.
C20_BypassLeavesBuckets ==
    [][(/\ ret'.op = "call"
        /\ \/ ret'.scope_type # "http"
           \/ ret'.path \in {"/health", "/healthz", "/"}
           \/ ret'.upgrade \in {"websocket", "WebSocket"}) =>
          /\ http_buckets' = http_buckets
          /\ ws_buckets' = ws_buckets
          /\ ret'.status = 0
          /\ requests'[ret'.r].pc = "forwarding"
      ]_vars

\* A request to /health from a client whose bucket is exhausted was passed
\* on.
C20_Witness ==
    /\ ret.op = "call"
    /\ ret.scope_type = "http"
    /\ ret.path = "/health"
    /\ ret.was_exhausted
    /\ Exhausted(http_buckets, ret.key)
    /\ requests[ret.r].pc = "forwarding"

\* Whether the header name with this value is among the headers.
HasHeader(headers, name, value) ==
    \E i \in DOMAIN headers : headers[i] = <<name, value>>

\* C21: a request checked by the middleware reaches the application
\* exactly when check_http allowed it; a refused one is answered with
\* status 429 and a Retry-After header of int(retry_after) + 1 >= 1 seconds,
\* and the response to an allowed one carries x-ratelimit-limit with the
\* configured rate.
C21_ForwardedIffAllowed ==
    /\ \A r \in Requests :
           requests[r].pool = "http" =>
               /\ requests[r].reached = requests[r].allowed
               /\ ~requests[r].allowed =>
                      /\ requests[r].status = 429
                      /\ \E n \in 1..(IntOf(FDiv(One, RefillRate(
                                         config.http_requests_per_minute))) + 1) :
                             requests[r].headers
                                 = << <<"Retry-After", ToString(n)>> >>
               /\ (requests[r].allowed /\ requests[r].status # 0) =>
                      /\ requests[r].status = 200
                      /\ HasHeader(requests[r].headers, "x-ratelimit-limit",
                                   ToString(config.http_requests_per_minute))
    /\ (ret.op = "call" /\ ret.checked) =>
           /\ (ret.status = 429) = ~ret.allowed
           /\ ~ret.allowed => ret.retry_after >= 1

\* A client's third request, half a second after its burst of two, was
\* refused with Retry-After: 1 (int(0.5) + 1) while the application has
\* answered an admitted one.
C21_Witness ==
    /\ ret.op = "call"
    /\ ret.checked
    /\ ~ret.allowed
    /\ FLt(ret.wait, One)
    /\ HasHeader(requests[ret.r].headers, "Retry-After", "1")
    /\ \E r \in Requests :
           /\ requests[r].pool = "http"
           /\ requests[r].status = 200

\* C22: check_ws_rate_limit sends nothing and returns True when check_ws
\* allows the message; when check_ws refuses it, exactly one frame is handed
\* to send_json, an error frame with code rate_limit_exceeded and the
\* integer retry_after = int(retry_after) + 1 >= 1, and it returns False
\* when that send returns.
C22_RefusedGetsOneErrorFrame ==
    \A r \in Requests :
        requests[r].pool = "ws" =>
            /\ requests[r].allowed =>
                   /\ requests[r].frames = <<>>
                   /\ requests[r].result = "True"
            /\ ~requests[r].allowed =>
                   /\ Len(requests[r].frames) = 1
                   /\ requests[r].frames[1].type = "error"
                   /\ requests[r].frames[1].code = "rate_limit_exceeded"
                   /\ requests[r].frames[1].retry_after \in Nat
                   /\ requests[r].frames[1].retry_after >= 1
                   /\ requests[r].result \in {"await", "False", "raised"}
                   /\ (ret.op = "finish" /\ ret.r = r /\ ret.ok) =>
                          requests[r].result = "False"

\* A session's message, half a second after its burst, was refused with
\* retry_after 2 (int(1.5) + 1) and check_ws_rate_limit has returned False.
C22_Witness ==
    /\ ret.op = "finish"
    /\ ret.ok
    /\ requests[ret.r].pool = "ws"
    /\ ~requests[ret.r].allowed
    /\ requests[ret.r].at = 1
    /\ requests[ret.r].result = "False"
    /\ requests[ret.r].frames[1].retry_after = 2

(***************************************************************************)
(* The conversation stores of the services: ChatService.process_message    *)
(* (services/chat_service.py) and VoiceService._process_text               *)
(* (services/voice_service.py) keep one message list per session id in     *)
(* their own _sessions dict.  A call is suspended while it awaits the      *)
(* agent and while it awaits the broadcast; there the calls made for other *)
(* connections run.                                                        *)
(***************************************************************************)
\* The services: each has its own _sessions.
Services == {"chat", "voice"}

\* The calls followed; each brings one user message, named after it.
Calls == {"c1", "c2", "c3"}

\* The session ids the calls are made for.
ServiceSessionIds == {"s1", "s2"}

\* {"role": "user", "content": message}
UserMessage(c) == [role |-> "user", content |-> "text", of |-> c]

\* What the agent adds to the conversation for the message of call c:
\* with a tool round, the assistant's tool use and the tool results (a
\* message of role user), and last the assistant's text.
AgentMessages(c, tool_round) ==
    (IF tool_round
     THEN <<[role |-> "assistant", content |-> "tool_use", of |-> c],
            [role |-> "user", content |-> "tool_result", of |-> c]>>
     ELSE <<>>)
    \o <<[role |-> "assistant", content |-> "text", of |-> c]>>

\* self._sessions.get(session_id, [])
GetSession(d, sid) == IF sid \in DOMAIN d THEN d[sid] ELSE <<>>

FreshCall ==
    [pc           |-> "idle",   \* idle, agent, broadcast, returned, raised
     service      |-> None,     \* the service called
     session_id   |-> None,     \* its session_id argument
     conversation |-> <<>>]     \* the list handed to the agent

InitService ==
    /\ clock = 0
    /\ ret = [op |-> "init"]
    /\ sessions = [svc \in Services |-> EmptyPool]
    /\ calls = [c \in Calls |-> FreshCall]
    /\ BucketIdle
    /\ LimiterIdle
    /\ ManagerIdle
    /\ HandlerIdle
    /\ SweepIdle
    /\ MiddlewareIdle

\* service.process_message(session_id, message) or
\* service._process_text(session_id, message), up to the await of the
\* agent: history = self._sessions.get(session_id, []);
\* chat_with_history_async copies it and appends the user message.
process_message(c, svc, sid) ==
    /\ calls[c].pc = "idle"
    /\ calls' = [calls EXCEPT ![c] =
           [pc           |-> "agent",
            service      |-> svc,
            session_id   |-> sid,
            conversation |-> GetSession(sessions[svc], sid)
                             \o <<UserMessage(c)>>]]
    /\ ret' = [op |-> "process_message", call |-> c]
    /\ UNCHANGED <<clock, bucketVars, limiterVars, managerVars, taskVars,
                   sessions>>

\* The await of the agent ends.  When it returns, the history it built is
\* stored, self._sessions[session_id] = updated_history, and the call
\* returns, after a broadcast when the appointments changed; when it
\* raises, the call ends with nothing stored.
agent_returns(c, ok, tool_round, changed) ==
    /\ calls[c].pc = "agent"
    /\ ~ok => (~tool_round /\ ~changed)
    /\ sessions' =
           IF ok
           THEN [sessions EXCEPT ![calls[c].service] =
                    Put(@, calls[c].session_id,
                        calls[c].conversation \o AgentMessages(c, tool_round))]
           ELSE sessions
    /\ calls' = [calls EXCEPT ![c].pc = IF ~ok THEN "raised"
                                        ELSE IF changed THEN "broadcast"
                                        ELSE "returned"]
    /\ ret' = [op |-> "agent_returns", call |-> c, ok |-> ok]
    /\ UNCHANGED <<clock, bucketVars, limiterVars, managerVars, taskVars>>

\* await self._notifications.broadcast("appointments_changed", ...) ends
\* and the call returns.
broadcast_returns(c) ==
    /\ calls[c].pc = "broadcast"
    /\ calls' = [calls EXCEPT ![c].pc = "returned"]
    /\ ret' = [op |-> "broadcast_returns", call |-> c]
    /\ UNCHANGED <<clock, bucketVars, limiterVars, managerVars, taskVars,
                   sessions>>

NextService ==
    \/ \E c \in Calls, svc \in Services, sid \in ServiceSessionIds :
           process_message(c, svc, sid)
    \/ \E c \in Calls, ok \in BOOLEAN, tool_round \in BOOLEAN,
          changed \in BOOLEAN :
           agent_returns(c, ok, tool_round, changed)
    \/ \E c \in Calls : broadcast_returns(c)

SpecService == InitService /\ [][NextService]_vars

(***************************************************************************)
(* Properties of the services, checked under SpecService.                  *)
(***************************************************************************)
\* The history stored for the session of call c.
StoredFor(c) == GetSession(sessions[calls[c].service], calls[c].session_id)

\* C30: every user message for which process_message or _process_text
\* returned is in the stored history of its session, also when calls for
\* the session overlapped while awaiting the agent.
C30_ReturnedMessagesStored ==
    \A c \in Calls :
        calls[c].pc = "returned" =>
            \E i \in DOMAIN StoredFor(c) : StoredFor(c)[i] = UserMessage(c)

====
